---------------------------- MODULE Spec2Model ----------------------------
(***************************************************************************)
(* knackBillMatch: reconciliation of scanned checks against billing        *)
(* invoices.  Each part of the program that is modelled has its own        *)
(* specification over the shared variables:                                *)
(*                                                                         *)
(*   SpecConsensus  analyze_check_with_consensus                           *)
(*   SpecMatch      match_checks_with_invoices, step by step               *)
(*   SpecScore      one call of is_match                                   *)
(*   SpecFields     normalize_name, name_similarity, the amount score      *)
(*   SpecBatch      process_input_folder                                   *)
(*                  (all of scripts/process_payments_llama.py)             *)
(*   SpecReview     MatchingGUI (scripts/matching_gui.py) fed by           *)
(*                  match_payments (scripts/matcher.py)                    *)
(*   SpecMain       main() of main.py                                      *)
(*   SpecNova       match_checks_with_invoices and reanalyze_check of      *)
(*                  scripts/process_payments.py                            *)
(*   SpecBilling    BillingMatcher (src/matcher.py)                        *)
(*   SpecKnack      KnackClient.get_unpaid_approved_billings               *)
(*                  (src/knack_client.py)                                  *)
(***************************************************************************)
EXTENDS Integers, Sequences, FiniteSets, TLC

VARIABLES
    \* ---- analyze_check_with_consensus ----
    cpc,            \* position in the coroutine: "convert", "attempt", "extra", "done"
    attempts,       \* what each analyze_check_image call returned, in call order
    results,        \* the local list `results` (truthy readings only)
    consensus,      \* the local dict `consensus`
    verdict,        \* which return statement was taken
    ret,            \* the value returned
    \* ---- match_checks_with_invoices ----
    mpc,            \* "running", "raised" (an exception left the function), "done"
    checks,         \* the argument `checks`
    invoices,       \* the argument `invoices` (raw Knack billing records)
    fi,             \* position of the conversion loop in `invoices`
    formatted_invoices,
    ci,             \* position of the matching loop in `checks`
    matches,
    unmatched_checks,
    matched_invoices,
    unmatched_invoices,
    \* ---- MatchingGUI ----
    gpc,            \* "open", "closed" (Finish), "crashed" (an exception left a handler)
    all_checks,
    potential_matches,
    current_check_index,
    check_data,
    tree,           \* the rows of matches_tree, one per candidate shown
    selected,       \* the row selected in matches_tree, 0 when none is
    final_matches,
    \* ---- one call of is_match ----
    spc,            \* "ready", "scored"
    s_check,
    s_invoice,
    s_scores,       \* the locals of is_match and what it returns
    \* ---- main() of main.py ----
    rpc,            \* "download", "ocr", "match", "gui", "review", "returned", "raised"
    billings,
    main_check_data,
    main_matches,
    artifact,       \* what json.dump wrote to final_matches_*.json, None before
    \* ---- process_input_folder ----
    bpc,            \* "loop", "analyze", "done", "raised"
    pdf_files,
    bi,             \* position in pdf_files of the file being processed
    png_ok,         \* whether convert_pdf_to_png succeeds on that file
    service,        \* what analyze_check_image gives on its successive calls for that file
    batch_check_data,
    \* ---- match_checks_with_invoices of process_payments.py (Nova) ----
    npc,            \* "start", "loop", "returned", "raised"
    n_check_data,
    filtered_checks,
    checks_needing_reanalysis,
    matches_data,
    loop_matches,   \* the list object `for match in matches_data` iterates
    mi,             \* position of the outer loop in loop_matches
    ii,             \* position of the inner loop in the match's matching_invoices
    requests,       \* the 'checks' of every request sent to match_data, in order
    reanalyses,     \* every call of reanalyze_check: the check and what came back
    n_error,         \* the exception that left the function, "" when none did
    \* ---- the field scorers, one application each ----
    fpc,            \* "names", "normalized", "renormalized", "compared", "amounts", "scored", "raised"
    f_name1,
    f_name2,
    once,           \* normalize_name(f_name1)
    twice,          \* normalize_name(once)
    similarity,     \* name_similarity(f_name1, f_name2); -1 before the call
    amount_a,       \* check_amount, in cents
    amount_b,       \* invoice_amount, in cents
    a_score,         \* amount_score; -1 before it is computed
    \* ---- BillingMatcher of src/matcher.py ----
    kpc,                \* "ready" (between calls of find_matches), "loop", "raised"
    financial_clients,  \* the kind of the clients given to __init__
    nova_client,        \* the kind of self.nova_client
    matched_transactions,
    knack_records,      \* the argument of the call of find_matches under way
    all_transactions,
    k_ri,               \* position of `for record in knack_records`
    k_ti,               \* position of `for transaction in transactions`
    k_matches,          \* `matches` of find_matches and of the record under way
    accepted,           \* every match appended at line 63, over all calls
    k_calls,             \* calls of find_matches begun
    \* ---- KnackClient.get_unpaid_approved_billings ----
    qpc,            \* "fetching", "returned", "raised"
    responses,      \* what the server answers to the request for page 1, 2, ...
    page,
    all_records

consVars == <<cpc, attempts, results, consensus, verdict, ret>>

matchVars == <<mpc, checks, invoices, fi, formatted_invoices, ci, matches,
               unmatched_checks, matched_invoices, unmatched_invoices>>

guiVars == <<gpc, all_checks, potential_matches, current_check_index, check_data, tree,
             selected, final_matches>>

scoreVars == <<spc, s_check, s_invoice, s_scores>>

mainVars == <<rpc, billings, main_check_data, main_matches, artifact>>

batchVars == <<bpc, pdf_files, bi, png_ok, service, batch_check_data>>

novaVars == <<npc, n_check_data, filtered_checks, checks_needing_reanalysis, matches_data,
              loop_matches, mi, ii, requests, reanalyses, n_error>>

fieldVars == <<fpc, f_name1, f_name2, once, twice, similarity, amount_a, amount_b, a_score>>

bmVars == <<kpc, financial_clients, nova_client, matched_transactions, knack_records,
            all_transactions, k_ri, k_ti, k_matches, accepted, k_calls>>

knackVars == <<qpc, responses, page, all_records>>

vars == <<consVars, matchVars, guiVars, scoreVars, mainVars, batchVars, novaVars, fieldVars, bmVars, knackVars>>

(***************************************************************************)
(* Python values.  A dict is a function whose DOMAIN is its key set; None  *)
(* is a record of its own so that it can be compared with a dict.          *)
(***************************************************************************)
NoneVal == [none |-> TRUE]

EmptyDict == [k \in {} |-> ""]

Range(s) == {s[i] : i \in DOMAIN s}

(***************************************************************************)
(*                      analyze_check_with_consensus                       *)
(***************************************************************************)

\* Number of distinct amounts the extraction service may read off one check.
NumValues == 2

\* the amounts read, the true one first
AmountReadings == <<"$5,490.00", "$5,940.00", "$5,490.80", "$6,490.00">>

Values == {AmountReadings[i] : i \in 1..NumValues}

\* default of the parameter num_attempts; process_input_folder never passes it
num_attempts == 2

\* one additional attempt too many
extra_attempts_plus_one == 2 + 1

\* `for i in range(2)`: the additional attempts made when the results differ
extra_attempts == 2

\* the eight fields voted on
required_fields ==
    <<"check_number", "amount", "date", "payee", "from", "from_address", "memo", "bank_name">>

\* the five fields a consensus must carry
must_have == {"check_number", "amount", "date", "payee", "from"}

\* analyze_check_image adds the two paths to every reading of the same check
WithPaths(d) == d @@ ("pdf_path" :> "5856.pdf") @@ ("image_path" :> "5856.png")

BaseReading ==
    WithPaths([check_number |-> "5856", amount |-> "$5,490.00", date |-> "10/02/2024",
               payee |-> "The Mapleton", from |-> "Kurt A Elliott and Penny K Elliott",
               from_address |-> "307 Village Rd", memo |-> "rent",
               bank_name |-> "Bank of America"])

\* the JSON object without the key f
WithoutKey(d, f) == [g \in (DOMAIN d) \ {f} |-> d[g]]

\* The readings the extraction service may return for the check: the true
\* reading; the true reading with one field reported as the empty string;
\* with another amount; with the amount or the memo left out of the JSON
\* object.
Readings ==
    {BaseReading}
    \cup {[BaseReading EXCEPT ![f] = ""] : f \in Range(required_fields)}
    \cup {[BaseReading EXCEPT !["amount"] = v] : v \in Values}
    \cup {WithoutKey(BaseReading, f) : f \in {"amount", "memo"}}

\* analyze_check_image: a reading with the paths added, or None when
\* extract_check_info raised or returned something falsy
AnalyzeOutcomes == Readings \cup {NoneVal}

\* `if result:` / result.get(field) truthiness
Truthy(d, f) == f \in DOMAIN d /\ d[f] # ""

\* values = [result.get(field) for result in results if result.get(field)]
RECURSIVE FieldValues(_, _)
FieldValues(res, f) ==
    IF res = <<>> THEN <<>>
    ELSE IF Truthy(Head(res), f)
         THEN <<Head(res)[f]>> \o FieldValues(Tail(res), f)
         ELSE FieldValues(Tail(res), f)

\* Counter(values): the keys in first-insertion order ...
RECURSIVE CounterKeys(_)
CounterKeys(vals) ==
    IF vals = <<>> THEN <<>>
    ELSE LET rest == CounterKeys(SubSeq(vals, 1, Len(vals) - 1))
             last == vals[Len(vals)]
         IN  IF last \in Range(rest) THEN rest ELSE Append(rest, last)

\* ... and the count of each key
CounterCount(vals, v) == Cardinality({i \in DOMAIN vals : vals[i] = v})

\* most_common(1)[0][0] with the tie rule turned around: the last maximal key
MostCommonLast(vals) ==
    LET keys == CounterKeys(vals)
        i == CHOOSE k \in DOMAIN keys :
                /\ \A j \in DOMAIN keys : CounterCount(vals, keys[j]) <= CounterCount(vals, keys[k])
                /\ \A j \in DOMAIN keys : j > k => CounterCount(vals, keys[j]) < CounterCount(vals, keys[k])
    IN  keys[i]

\* value_counts.most_common(1)[0][0]: heapq.nlargest(1, items, key=count) is
\* max(items, key=count), the first key of maximal count in insertion order
MostCommon(vals) ==
    LET keys == CounterKeys(vals)
        i == CHOOSE k \in DOMAIN keys :
                /\ \A j \in DOMAIN keys : CounterCount(vals, keys[j]) <= CounterCount(vals, keys[k])
                /\ \A j \in DOMAIN keys : j < k => CounterCount(vals, keys[j]) < CounterCount(vals, keys[k])
    IN  keys[i]

\* the voting loop over required_fields
Vote(res) ==
    LET voted == {f \in Range(required_fields) : FieldValues(res, f) # <<>>}
    IN  [f \in voted |-> MostCommon(FieldValues(res, f))]

\* The text of a JSON object or array stands for the dict or list json.loads
\* makes of it: truthy, and unhashable.
NestedValues == {"{\"street\": \"307 Village Rd\"}"}

\* Counter(values) hashes every value and raises TypeError on a dict or list
VoteRaises(res) ==
    \E f \in Range(required_fields) :
        \E i \in DOMAIN FieldValues(res, f) : FieldValues(res, f)[i] \in NestedValues

\* all(field in consensus for field in [five fields])
HasAllRequired(c) == must_have \subseteq DOMAIN c

\* the test turned around: any(result != results[0] ...)
AnyDiffers(res) == \E i \in DOMAIN res : res[i] # res[1]

\* all(result == results[0] for result in results)
AllIdentical(res) == \A i \in DOMAIN res : res[i] = res[1]

\* a truthy outcome is appended to results
Collect(res, o) == IF o = NoneVal THEN res ELSE Append(res, o)

\* the tail of the function from "Take the most common result": sets
\* consensus, verdict, ret
VoteAndReturn(res) ==
    IF VoteRaises(res)
    THEN cpc' = "raised" /\ verdict' = "raised" /\ UNCHANGED <<consensus, ret>>
    ELSE LET c == Vote(res)
         IN  /\ consensus' = c
             /\ IF HasAllRequired(c)
                THEN verdict' = "consensus" /\ ret' = c
                ELSE verdict' = "insufficient" /\ ret' = NoneVal
             /\ cpc' = "done"

ConsIdle ==
    /\ cpc = "idle"
    /\ attempts = <<>>
    /\ results = <<>>
    /\ consensus = EmptyDict
    /\ verdict = "pending"
    /\ ret = NoneVal

ConsStart ==
    /\ cpc = "convert"
    /\ attempts = <<>>
    /\ results = <<>>
    /\ consensus = EmptyDict
    /\ verdict = "pending"
    /\ ret = NoneVal

\* png_path = await convert_pdf_to_png(check_file); if not png_path: return None
ConvertPdf ==
    /\ cpc = "convert"
    /\ \E ok \in BOOLEAN :
         IF ok
         THEN cpc' = "attempt" /\ UNCHANGED <<verdict, ret>>
         ELSE cpc' = "done" /\ verdict' = "no_png" /\ ret' = NoneVal
    /\ UNCHANGED <<attempts, results, consensus>>
    /\ UNCHANGED <<matchVars, guiVars, scoreVars, mainVars, batchVars, novaVars, fieldVars, bmVars, knackVars>>

\* One pass of `for i in range(num_attempts)`; after the last pass the code
\* runs on, without suspending, to a return or to the first additional call.
Attempt ==
    /\ cpc = "attempt"
    /\ Len(attempts) < num_attempts
    /\ \E o \in AnalyzeOutcomes :
         LET res == Collect(results, o)
         IN  /\ attempts' = Append(attempts, o)
             /\ results' = res
             /\ IF Len(attempts) + 1 < num_attempts
                THEN UNCHANGED <<cpc, consensus, verdict, ret>>
                ELSE IF res = <<>>
                THEN /\ cpc' = "done" /\ verdict' = "no_results" /\ ret' = NoneVal
                     /\ UNCHANGED consensus
                ELSE IF AllIdentical(res)
                THEN /\ cpc' = "done" /\ verdict' = "identical" /\ ret' = res[1]
                     /\ UNCHANGED consensus
                ELSE IF num_attempts = 2
                THEN cpc' = "extra" /\ UNCHANGED <<consensus, verdict, ret>>
                ELSE VoteAndReturn(res)
    /\ UNCHANGED <<matchVars, guiVars, scoreVars, mainVars, batchVars, novaVars, fieldVars, bmVars, knackVars>>

\* One pass of `for i in range(2)` ("trying two more times"); after the
\* second the vote is taken and the function returns.
ExtraAttempt ==
    /\ cpc = "extra"
    /\ \E o \in AnalyzeOutcomes :
         LET res == Collect(results, o)
         IN  /\ attempts' = Append(attempts, o)
             /\ results' = res
             /\ IF Len(attempts) + 1 < num_attempts + extra_attempts
                THEN UNCHANGED <<cpc, consensus, verdict, ret>>
                ELSE VoteAndReturn(res)
    /\ UNCHANGED <<matchVars, guiVars, scoreVars, mainVars, batchVars, novaVars, fieldVars, bmVars, knackVars>>

ConsNext == ConvertPdf \/ Attempt \/ ExtraAttempt



(***************************************************************************)
(*                  Field normalizers and similarity scorers               *)
(*                                                                         *)
(* A float score in [0,1] is an integer number of 1/ScoreUnit; a composite *)
(* confidence, the sum of four scores weighted in tenths, is an integer    *)
(* number of 1/(10*ScoreUnit).  On the records enumerated below every      *)
(* quotient is exact in these units.                                       *)
(***************************************************************************)
ScoreUnit == 12 * 100

Max(a, b) == IF a >= b THEN a ELSE b

Abs(a) == IF a >= 0 THEN a ELSE 0 - a

\* Get(d, k, default): dict.get
Get(d, k, default) == IF k \in DOMAIN d THEN d[k] ELSE default

(* A name is a string seen as its whitespace-separated tokens.  A token
   has a kind ("word", "int" for a run of digits, "punct" for a token made
   of punctuation only, "tag" for an HTML tag), its word characters in
   lower case (text), whether it has upper-case letters (caps) and whether
   punctuation is attached to it (dec). *)
Word(t, c)  == [kind |-> "word", text |-> t, caps |-> c, dec |-> FALSE]
WordP(t, c) == [kind |-> "word", text |-> t, caps |-> c, dec |-> TRUE]
Digits(t)   == [kind |-> "int", text |-> t, caps |-> FALSE, dec |-> FALSE]
Punct       == [kind |-> "punct", text |-> "", caps |-> FALSE, dec |-> TRUE]
Tag         == [kind |-> "tag", text |-> "span", caps |-> FALSE, dec |-> TRUE]

\* the texts of the model in Python's string order (digits before letters)
Lexicon ==
    <<"275", "406", "413", "a", "and", "andover", "dwight", "elliott", "jeff", "judith",
      "k", "kurt", "mapleton", "or", "penny", "shinkle", "span", "spencer", "the">>

Rank(t) == CHOOSE i \in DOMAIN Lexicon : Lexicon[i] = t

\* list.sort() on the words: insertion of w into an ascending list, after its equals
RECURSIVE InsertWord(_, _)
InsertWord(ws, w) ==
    IF ws = <<>> THEN <<w>>
    ELSE IF Rank(w.text) < Rank(Head(ws).text)
         THEN <<w>> \o ws
         ELSE <<Head(ws)>> \o InsertWord(Tail(ws), w)

RECURSIVE SortWords(_)
SortWords(ws) ==
    IF ws = <<>> THEN <<>>
    ELSE InsertWord(SortWords(SubSeq(ws, 1, Len(ws) - 1)), ws[Len(ws)])

\* re.sub(r'\s+\d+$', '', name): a trailing token of digits only goes, with
\* the whitespace before it
StripUnitNumber(name) ==
    IF Len(name) >= 2 /\ name[Len(name)].kind = "int" /\ ~name[Len(name)].dec
    THEN SubSeq(name, 1, Len(name) - 1)
    ELSE name

\* name.lower(); re.sub(r'[^\w\s]', '', name)
LowerNoPunct(name) ==
    [i \in DOMAIN name |->
        [kind |-> IF name[i].kind = "int" THEN "int" ELSE "word",
         text |-> name[i].text, caps |-> FALSE, dec |-> FALSE]]

HasText(tok) == tok.text # ""

\* normalize_name; '' and None are the empty token list
normalize_name(name) ==
    IF name = <<>> THEN <<>>
    ELSE SortWords(SelectSeq(LowerNoPunct(StripUnitNumber(name)), HasText))

WordSet(name) == {name[i].text : i \in DOMAIN name}

\* the overlap taken relative to the words of the first name
NameSimilarityOverFirst(name1, name2) ==
    IF name1 = <<>> \/ name2 = <<>> THEN 0
    ELSE LET words1 == WordSet(normalize_name(name1))
             words2 == WordSet(normalize_name(name2))
         IN  IF words1 \cup words2 = {} \/ words1 = {} THEN 0
             ELSE (Cardinality(words1 \cap words2) * ScoreUnit) \div Cardinality(words1)

\* name_similarity: Jaccard overlap of the word sets of the two normalized names
name_similarity(name1, name2) ==
    IF name1 = <<>> \/ name2 = <<>> THEN 0
    ELSE LET words1 == WordSet(normalize_name(name1))
             words2 == WordSet(normalize_name(name2))
             total_words == words1 \cup words2
         IN  IF total_words = {} THEN 0
             ELSE (Cardinality(words1 \cap words2) * ScoreUnit) \div Cardinality(total_words)

(* An amount string is [kind, cents]: kind "money" for text that float()
   parses once '$' and ',' are removed, "junk" for other text, "empty" for
   '', "none" for None. *)
Money(c) == [kind |-> "money", cents |-> c]
NotMoney(k) == [kind |-> k, cents |-> 0]

\* normalize_amount, in cents: ValueError and AttributeError give 0.0
normalize_amount(amount_str) ==
    IF amount_str.kind = "money" THEN amount_str.cents ELSE 0

(* A date string is [kind, m, d, y]: kind "date" for digits laid out as
   MM/DD/YYYY, "junk" for other text, "empty" for ''. *)
Date(m, d, y) == [kind |-> "date", m |-> m, d |-> d, y |-> y]
NotDate(k) == [kind |-> k, m |-> 0, d |-> 0, y |-> 0]

IsLeap(y) == (y % 4 = 0) /\ ((y % 100 # 0) \/ (y % 400 = 0))

DaysInMonth(m, y) ==
    IF m = 2 THEN (IF IsLeap(y) THEN 29 ELSE 28)
    ELSE IF m \in {4, 6, 9, 11} THEN 30 ELSE 31

RECURSIVE DaysBeforeMonth(_, _)
DaysBeforeMonth(m, y) == IF m = 1 THEN 0 ELSE DaysBeforeMonth(m - 1, y) + DaysInMonth(m - 1, y)

\* datetime.strptime(s, '%m/%d/%Y') succeeds
Parses(s) ==
    /\ s.kind = "date"
    /\ s.m \in 1..12
    /\ s.y \in 1..9999
    /\ s.d \in 1..DaysInMonth(s.m, s.y)

\* the proleptic Gregorian ordinal of a parsed date
Ordinal(s) ==
    LET p == s.y - 1
    IN  p * 365 + (p \div 4) - (p \div 100) + (p \div 400) + DaysBeforeMonth(s.m, s.y) + s.d


\* the chain without its 90-day step
DateStepsNoQuarter(days_diff) ==
    IF days_diff = 0 THEN ScoreUnit
    ELSE IF days_diff <= 7 THEN (9 * ScoreUnit) \div 10
    ELSE IF days_diff <= 30 THEN (8 * ScoreUnit) \div 10
    ELSE 0

\* the if/elif chain of get_date_score
DateSteps(days_diff) ==
    IF days_diff = 0 THEN ScoreUnit
    ELSE IF days_diff <= 7 THEN (9 * ScoreUnit) \div 10
    ELSE IF days_diff <= 30 THEN (8 * ScoreUnit) \div 10
    ELSE IF days_diff <= 90 THEN (5 * ScoreUnit) \div 10
    ELSE 0

\* get_date_score: '' / None and a ValueError of strptime give 0.0
get_date_score(date1_str, date2_str) ==
    IF date1_str.kind \in {"empty", "none"} \/ date2_str.kind \in {"empty", "none"} THEN 0
    ELSE IF ~Parses(date1_str) \/ ~Parses(date2_str) THEN 0
    ELSE DateSteps(Abs(Ordinal(date2_str) - Ordinal(date1_str)))

\* the keys is_match reads with check[...] and invoice[...]
CheckKeys == {"amount", "date", "from", "payee"}
InvoiceKeys == {"amount", "date", "resident_name", "payee"}

\* amount_score; the division raises ZeroDivisionError when the larger amount is 0
AmountDivides(check_amount, invoice_amount) ==
    check_amount = invoice_amount \/ Max(check_amount, invoice_amount) # 0

\* a / b for a >= 0 and b # 0, in the sign Python's division gives it
Quotient(a, b) == IF b > 0 THEN a \div b ELSE 0 - (a \div (0 - b))

\* the decay taken relative to the check's amount
AmountScoreOverCheck(check_amount, invoice_amount) ==
    LET amount_diff == Abs(check_amount - invoice_amount)
    IN  IF amount_diff = 0 THEN ScoreUnit
        ELSE IF check_amount = 0 THEN 0
        ELSE Max(0, ScoreUnit - Quotient(amount_diff * ScoreUnit, check_amount))

\* the relative difference itself, without `1.0 -`
AmountScoreGrowing(check_amount, invoice_amount) ==
    LET amount_diff == Abs(check_amount - invoice_amount)
    IN  IF amount_diff = 0 THEN ScoreUnit
        ELSE Max(0, Quotient(amount_diff * ScoreUnit, Max(check_amount, invoice_amount)))

amount_score(check_amount, invoice_amount) ==
    LET amount_diff == Abs(check_amount - invoice_amount)
    IN  IF amount_diff = 0 THEN ScoreUnit
        ELSE Max(0, ScoreUnit - Quotient(amount_diff * ScoreUnit,
                                         Max(check_amount, invoice_amount)))

\* the weights, in tenths
amount_weight == 4
date_weight == 2
name_weight == 3
payee_weight == 1

\* is_match: the weighted sum, or 0.0 from the `except Exception` when a key
\* is missing or the division raises
is_match(check, invoice) ==
    IF ~(CheckKeys \subseteq DOMAIN check) \/ ~(InvoiceKeys \subseteq DOMAIN invoice) THEN 0
    ELSE LET check_amount == normalize_amount(check["amount"])
             invoice_amount == normalize_amount(invoice["amount"])
         IN  IF ~AmountDivides(check_amount, invoice_amount) THEN 0
             ELSE amount_score(check_amount, invoice_amount) * amount_weight
                  + get_date_score(check["date"], invoice["date"]) * date_weight
                  + name_similarity(normalize_name(check["from"]),
                                    normalize_name(invoice["resident_name"])) * name_weight
                  + name_similarity(normalize_name(check["payee"]),
                                    normalize_name(invoice["payee"])) * payee_weight


(***************************************************************************)
(*                       match_checks_with_invoices                        *)
(***************************************************************************)

\* Longest batch of checks and of invoices handed to the match engine.
MaxChecks == 2
MaxInvoices == 3

KurtPenny ==
    <<Word("kurt", TRUE), Word("a", TRUE), Word("elliott", TRUE), Word("and", FALSE),
      Word("penny", TRUE), Word("k", TRUE), Word("elliott", TRUE)>>
DwightJeff ==
    <<Word("dwight", TRUE), Word("shinkle", TRUE), Word("or", FALSE),
      Word("jeff", TRUE), Word("shinkle", TRUE)>>
KurtElliott == <<Word("kurt", TRUE), Word("elliott", TRUE)>>
TheMapleton == <<Word("the", TRUE), Word("mapleton", TRUE)>>
TheMapletonAndover == <<Word("the", TRUE), Word("mapleton", TRUE), Word("andover", TRUE)>>
KurtElliott413 == <<Word("kurt", TRUE), Word("elliott", TRUE), Digits("413")>>
DwightShinkle406 == <<Word("dwight", TRUE), Word("shinkle", TRUE), Digits("406")>>
JudithSpencer275 == <<Word("judith", TRUE), Word("spencer", TRUE), Digits("275")>>

\* '<span class="...">name</span>'
Span(name) == <<Tag>> \o name \o <<Tag>>

(* The check records of the model, as process_input_folder hands them on:
   two well-read checks, a check whose amount and date were read as text
   that does not parse, and a record accepted without a "from" key. *)
CheckPool ==
    { [check_number |-> "5856", amount |-> Money(549000), date |-> Date(10, 2, 2024),
       from |-> KurtPenny, payee |-> TheMapleton],
      [check_number |-> "3576", amount |-> Money(549000), date |-> Date(10, 2, 2024),
       from |-> DwightJeff, payee |-> TheMapletonAndover],
      [check_number |-> "5857", amount |-> NotMoney("junk"), date |-> NotDate("junk"),
       from |-> KurtElliott, payee |-> TheMapleton],
      [check_number |-> "3577", amount |-> Money(549000), date |-> Date(10, 2, 2024),
       payee |-> TheMapleton] }

\* field_1411_raw: a number (in tenths of a cent), text that is no number, or null
Number(mills) == [kind |-> "number", mills |-> mills]
NotNumber(k) == [kind |-> k, mills |-> 0]

(* The Knack billing records of the model: three well-formed ones, one whose
   amount is text that is no number, one whose amount is null, and one with
   neither amount nor resident, its date only in field_1351_raw. *)
InvoicePool ==
    { [field_1418 |-> "Andover1002816", field_1411_raw |-> Number(5490000),
       field_1350 |-> Span(KurtElliott413),
       field_1350_raw |-> <<[identifier |-> KurtElliott413]>>,
       field_1351 |-> Date(10, 1, 2024)],
      [field_1418 |-> "Andover1002831", field_1411_raw |-> Number(5490000),
       field_1350 |-> Span(DwightShinkle406),
       field_1350_raw |-> <<[identifier |-> DwightShinkle406]>>,
       field_1351 |-> Date(11, 1, 2024)],
      [field_1418 |-> "Andover1002766", field_1411_raw |-> Number(2745004),
       field_1350 |-> Span(JudithSpencer275),
       field_1350_raw |-> <<[identifier |-> JudithSpencer275]>>,
       field_1351 |-> Date(6, 1, 2024)],
      [field_1418 |-> "Andover1002999", field_1411_raw |-> NotNumber("junk"),
       field_1350 |-> Span(KurtElliott413),
       field_1350_raw |-> <<[identifier |-> KurtElliott413]>>,
       field_1351 |-> Date(10, 1, 2024)],
      [field_1418 |-> "Andover1003000", field_1411_raw |-> NotNumber("null"),
       field_1350 |-> Span(DwightShinkle406),
       field_1350_raw |-> <<[identifier |-> DwightShinkle406]>>,
       field_1351 |-> Date(11, 1, 2024)],
      [field_1418 |-> "Andover1003001",
       field_1351_raw |-> [date |-> Date(10, 2, 2024)]] }

\* the sequences of at most n distinct elements of S
RECURSIVE DistinctSeqs(_, _)
DistinctSeqs(S, n) ==
    IF n = 0 THEN {<<>>}
    ELSE LET shorter == DistinctSeqs(S, n - 1)
         IN  shorter \cup UNION {{Append(q, x) : x \in S \ Range(q)} : q \in shorter}

\* re.sub(r'<[^>]+>', '', raw_payee)
IsNoTag(tok) == tok.kind # "tag"
StripTags(raw_payee) == SelectSeq(raw_payee, IsNoTag)

\* float(invoice.get('field_1411_raw', 0)): "ok", "ValueError" or "TypeError"
FloatOutcome(invoice) ==
    LET raw == Get(invoice, "field_1411_raw", Number(0))
    IN  IF raw.kind = "number" THEN "ok"
        ELSE IF raw.kind = "null" THEN "TypeError"
        ELSE "ValueError"

\* f"${amount:,.2f}": the amount rounded to the cent, as an amount string
FormatAmount(mills) == Money((mills + 5) \div 10)

\* the body of the conversion loop for an invoice whose amount converts
FormatInvoice(invoice) ==
    LET amount == Get(invoice, "field_1411_raw", Number(0)).mills
        raw_payee == Get(invoice, "field_1350", <<>>)
        raw_data == Get(invoice, "field_1350_raw", <<>>)
        resident_name == IF raw_data # <<>> THEN Get(raw_data[1], "identifier", <<>>) ELSE <<>>
        date1 == Get(invoice, "field_1351", NotDate("empty"))
        invoice_date == IF date1.kind = "empty" /\ "field_1351_raw" \in DOMAIN invoice
                        THEN Get(invoice["field_1351_raw"], "date", NotDate("empty"))
                        ELSE date1
    IN  [invoice_number |-> Get(invoice, "field_1418", ""),
         amount |-> FormatAmount(amount),
         date |-> invoice_date,
         payee |-> StripTags(raw_payee),
         resident_name |-> resident_name,
         raw_payee |-> raw_payee,
         original_data |-> invoice]


\* `if score > 0.3`
AboveFloor(score) == score > 3 * ScoreUnit

\* the invoices a check is scored against, had claimed invoices left the pool
UnclaimedPool(formatted, matched) ==
    SelectSeq(formatted, LAMBDA inv : inv.invoice_number \notin matched)

\* `for invoice in formatted_invoices`: every check is scored against all of them
ScoringPool(formatted, matched) == formatted

\* the inner loop: the candidates of one check, in invoice order
RECURSIVE ScoredMatches(_, _)
ScoredMatches(check, pool) ==
    IF pool = <<>> THEN <<>>
    ELSE LET score == is_match(check, Head(pool))
             rest == ScoredMatches(check, Tail(pool))
         IN  IF AboveFloor(score)
             THEN <<[check |-> check, invoice |-> Head(pool), confidence |-> score]>> \o rest
             ELSE rest

\* insertion into a list of descending confidence, after its equals
RECURSIVE InsertMatch(_, _)
InsertMatch(ms, x) ==
    IF ms = <<>> THEN <<x>>
    ELSE IF x.confidence > Head(ms).confidence
         THEN <<x>> \o ms
         ELSE <<Head(ms)>> \o InsertMatch(Tail(ms), x)

\* the list left as the inner loop built it
Unsorted(ms) == ms

\* scored_matches.sort(key=lambda x: x['confidence'], reverse=True): stable
RECURSIVE SortByConfidence(_)
SortByConfidence(ms) ==
    IF ms = <<>> THEN <<>>
    ELSE InsertMatch(SortByConfidence(SubSeq(ms, 1, Len(ms) - 1)), ms[Len(ms)])

\* every formatted invoice reported unmatched
AllInvoices(formatted, matched) == formatted

\* [inv for inv in formatted_invoices if inv['invoice_number'] not in matched_invoices]
UnmatchedInvoices(formatted, matched) ==
    SelectSeq(formatted, LAMBDA inv : inv.invoice_number \notin matched)

\* the raw invoice, had the conversion taken its number out with pop
InvoicePopped(invoice) ==
    [k \in DOMAIN invoice \ {"field_1418"} |-> invoice[k]]

\* the raw invoice after its pass of the conversion loop, which reads it
\* with get and [] only and keeps it, as it is, under 'original_data'
InvoiceAfterConversion(invoice) == invoice

\* the check after it was scored against the invoices: is_match and the
\* candidate entries read it and refer to it, none assigns to it
CheckAfterScoring(check) == check

MatchIdle ==
    /\ mpc = "idle"
    /\ checks = <<>>
    /\ invoices = <<>>
    /\ fi = 1
    /\ formatted_invoices = <<>>
    /\ ci = 1
    /\ matches = <<>>
    /\ unmatched_checks = <<>>
    /\ matched_invoices = {}
    /\ unmatched_invoices = <<>>

MatchStart ==
    /\ mpc = "running"
    /\ checks \in DistinctSeqs(CheckPool, MaxChecks)
    /\ invoices \in DistinctSeqs(InvoicePool, MaxInvoices)
    /\ fi = 1
    /\ formatted_invoices = <<>>
    /\ ci = 1
    /\ matches = <<>>
    /\ unmatched_checks = <<>>
    /\ matched_invoices = {}
    /\ unmatched_invoices = <<>>

\* one pass of `for invoice in invoices`
ConvertInvoice ==
    /\ mpc = "running"
    /\ fi <= Len(invoices)
    /\ LET outcome == FloatOutcome(invoices[fi])
       IN  /\ mpc' = IF outcome = "TypeError" THEN "raised" ELSE "running"
           /\ formatted_invoices' =
                 IF outcome = "ok"
                 THEN Append(formatted_invoices, FormatInvoice(invoices[fi]))
                 ELSE formatted_invoices
    /\ invoices' = [invoices EXCEPT ![fi] = InvoiceAfterConversion(@)]
    /\ fi' = fi + 1
    /\ UNCHANGED <<checks, ci, matches, unmatched_checks, matched_invoices,
                   unmatched_invoices>>
    /\ UNCHANGED <<consVars, guiVars, scoreVars, mainVars, batchVars, novaVars, fieldVars, bmVars, knackVars>>

\* one pass of `for check in checks`
MatchCheck ==
    /\ mpc = "running"
    /\ fi > Len(invoices)
    /\ ci <= Len(checks)
    /\ LET scored_matches ==
               SortByConfidence(
                   ScoredMatches(checks[ci], ScoringPool(formatted_invoices, matched_invoices)))
       IN  /\ IF scored_matches # <<>>
              THEN matches' = Append(matches, scored_matches) /\ UNCHANGED unmatched_checks
              ELSE unmatched_checks' = Append(unmatched_checks, checks[ci]) /\ UNCHANGED matches
           /\ matched_invoices' =
                 matched_invoices
                 \cup {scored_matches[i].invoice.invoice_number : i \in DOMAIN scored_matches}
    /\ checks' = [checks EXCEPT ![ci] = CheckAfterScoring(@)]
    /\ ci' = ci + 1
    /\ UNCHANGED <<mpc, invoices, fi, formatted_invoices, unmatched_invoices>>
    /\ UNCHANGED <<consVars, guiVars, scoreVars, mainVars, batchVars, novaVars, fieldVars, bmVars, knackVars>>

\* the unmatched invoices are collected and the three lists returned
ReturnMatches ==
    /\ mpc = "running"
    /\ fi > Len(invoices)
    /\ ci > Len(checks)
    /\ unmatched_invoices' = UnmatchedInvoices(formatted_invoices, matched_invoices)
    /\ mpc' = "done"
    /\ UNCHANGED <<checks, invoices, fi, formatted_invoices, ci, matches, unmatched_checks,
                   matched_invoices>>
    /\ UNCHANGED <<consVars, guiVars, scoreVars, mainVars, batchVars, novaVars, fieldVars, bmVars, knackVars>>

MatchNext == ConvertInvoice \/ MatchCheck \/ ReturnMatches


(***************************************************************************)
(*                          One call of is_match                           *)
(***************************************************************************)

\* is_match leaves through its `except Exception`
IsMatchRaises(check, invoice) ==
    \/ ~(CheckKeys \subseteq DOMAIN check)
    \/ ~(InvoiceKeys \subseteq DOMAIN invoice)
    \/ ~AmountDivides(normalize_amount(check["amount"]), normalize_amount(invoice["amount"]))

\* the locals of is_match at its return, or raised when the except clause returned
IsMatchLocals(check, invoice) ==
    IF IsMatchRaises(check, invoice)
    THEN [raised |-> TRUE, amount_score |-> 0, date_score |-> 0, name_score |-> 0,
          payee_score |-> 0, total_score |-> is_match(check, invoice)]
    ELSE [raised |-> FALSE,
          amount_score |-> amount_score(normalize_amount(check["amount"]),
                                        normalize_amount(invoice["amount"])),
          date_score |-> get_date_score(check["date"], invoice["date"]),
          name_score |-> name_similarity(normalize_name(check["from"]),
                                         normalize_name(invoice["resident_name"])),
          payee_score |-> name_similarity(normalize_name(check["payee"]),
                                          normalize_name(invoice["payee"])),
          total_score |-> is_match(check, invoice)]

\* The dates of the scored records: the days around each step of the date
\* score from 10/02/2024, a day that is not in the calendar, text that is no
\* date, '' and None.
ScoreDates ==
    {Date(10, 2, 2024), Date(10, 9, 2024), Date(10, 10, 2024), Date(11, 1, 2024),
     Date(11, 2, 2024), Date(12, 31, 2024), Date(1, 1, 2025), Date(2, 30, 2024),
     NotDate("junk"), NotDate("empty"), NotDate("none")}

\* amounts that halve and double exactly, negative ones, text that is no
\* number and None
ScoreCheckAmounts ==
    {Money(549000), Money(274500), Money(0 - 549000), NotMoney("junk"), NotMoney("none")}

ScoreInvoiceAmounts == {Money(549000), Money(0), Money(0 - 274500), NotMoney("junk")}

\* the checks handed to is_match, one of them without its "amount" key
ScoreChecks ==
    {[amount |-> a, date |-> d, from |-> f, payee |-> p] :
        a \in ScoreCheckAmounts, d \in ScoreDates,
        f \in {KurtPenny, KurtElliott, <<>>}, p \in {TheMapleton, KurtElliott}}
    \cup {[date |-> Date(10, 2, 2024), from |-> KurtElliott, payee |-> TheMapleton]}

\* the formatted invoices handed to is_match
ScoreInvoices ==
    {[amount |-> a, date |-> d, resident_name |-> r, payee |-> KurtElliott413] :
        a \in ScoreInvoiceAmounts,
        d \in {Date(10, 2, 2024), Date(1, 1, 2025), NotDate("junk")},
        r \in {KurtElliott, <<>>}}

ScoreIdle ==
    /\ spc = "idle"
    /\ s_check = NoneVal
    /\ s_invoice = NoneVal
    /\ s_scores = NoneVal

ScoreStart ==
    /\ spc = "ready"
    /\ s_check \in ScoreChecks
    /\ s_invoice \in ScoreInvoices
    /\ s_scores = NoneVal

\* score = is_match(check, invoice)
Score ==
    /\ spc = "ready"
    /\ spc' = "scored"
    /\ s_scores' = IsMatchLocals(s_check, s_invoice)
    /\ UNCHANGED <<s_check, s_invoice>>
    /\ UNCHANGED <<consVars, matchVars, guiVars, mainVars, batchVars, novaVars, fieldVars, bmVars, knackVars>>

ScoreNext == Score

(***************************************************************************)
(*      normalize_name, name_similarity and the amount score, applied      *)
(***************************************************************************)

\* Most tokens of a name handed to normalize_name.
MaxNameLen == 3

\* a token of digits with punctuation attached ("34!")
DigitsP(t) == [kind |-> "int", text |-> t, caps |-> FALSE, dec |-> TRUE]

\* the tokens names are made of: words, a word with punctuation, integers,
\* an integer with punctuation, a token of punctuation only
NameTokens ==
    {Word("kurt", TRUE), WordP("elliott", TRUE), Digits("406"), Digits("413"),
     DigitsP("275"), Punct}

RECURSIVE NamesOfLen(_)
NamesOfLen(n) ==
    IF n = 0 THEN {<<>>}
    ELSE UNION {{Append(x, t) : t \in NameTokens} : x \in NamesOfLen(n - 1)}

\* every name of at most MaxNameLen tokens; <<>> is '' (and None)
Names == UNION {NamesOfLen(n) : n \in 0..MaxNameLen}

\* the names a name is compared with
OtherNames == {<<>>, <<Punct>>, KurtElliott, KurtPenny, KurtElliott413}

\* amounts in cents whose quotients are exact in 1/ScoreUnit, one of them
\* negative
FieldAmounts == {0, 137250, 183000, 274500, 549000, 0 - 274500}

FieldsIdle ==
    /\ fpc = "idle"
    /\ f_name1 = <<>>
    /\ f_name2 = <<>>
    /\ once = <<>>
    /\ twice = <<>>
    /\ similarity = 0 - 1
    /\ amount_a = 0
    /\ amount_b = 0
    /\ a_score = 0 - 1

FieldsStart ==
    /\ once = <<>>
    /\ twice = <<>>
    /\ similarity = 0 - 1
    /\ a_score = 0 - 1
    /\ \/ /\ fpc = "names"
          /\ f_name1 \in Names
          /\ f_name2 \in OtherNames \cup {f_name1}
          /\ amount_a = 0
          /\ amount_b = 0
       \/ /\ fpc = "amounts"
          /\ amount_a \in FieldAmounts
          /\ amount_b \in FieldAmounts
          /\ f_name1 = <<>>
          /\ f_name2 = <<>>

\* from_name = normalize_name(check['from'])
NormalizeName ==
    /\ fpc = "names"
    /\ once' = normalize_name(f_name1)
    /\ fpc' = "normalized"
    /\ UNCHANGED <<f_name1, f_name2, twice, similarity, amount_a, amount_b, a_score>>
    /\ UNCHANGED <<consVars, matchVars, guiVars, scoreVars, mainVars, batchVars, novaVars, bmVars, knackVars>>

\* name1 = normalize_name(name1) inside name_similarity, on the normalized name
NormalizeAgain ==
    /\ fpc = "normalized"
    /\ twice' = normalize_name(once)
    /\ fpc' = "renormalized"
    /\ UNCHANGED <<f_name1, f_name2, once, similarity, amount_a, amount_b, a_score>>
    /\ UNCHANGED <<consVars, matchVars, guiVars, scoreVars, mainVars, batchVars, novaVars, bmVars, knackVars>>

\* name_similarity(name1, name2)
NameSimilarity ==
    /\ fpc = "names"
    /\ similarity' = name_similarity(f_name1, f_name2)
    /\ fpc' = "compared"
    /\ UNCHANGED <<f_name1, f_name2, once, twice, amount_a, amount_b, a_score>>
    /\ UNCHANGED <<consVars, matchVars, guiVars, scoreVars, mainVars, batchVars, novaVars, bmVars, knackVars>>

\* amount_diff and amount_score of is_match; the division by a larger
\* amount of 0 raises
AmountScore ==
    /\ fpc = "amounts"
    /\ IF AmountDivides(amount_a, amount_b)
       THEN a_score' = amount_score(amount_a, amount_b) /\ fpc' = "scored"
       ELSE fpc' = "raised" /\ UNCHANGED a_score
    /\ UNCHANGED <<f_name1, f_name2, once, twice, similarity, amount_a, amount_b>>
    /\ UNCHANGED <<consVars, matchVars, guiVars, scoreVars, mainVars, batchVars, novaVars, bmVars, knackVars>>

FieldsNext == NormalizeName \/ NormalizeAgain \/ NameSimilarity \/ AmountScore

(***************************************************************************)
(*                     BillingMatcher of src/matcher.py                    *)
(*                                                                         *)
(* The clients and the Nova client are either the classes of the           *)
(* repository, whose methods are coroutine functions that find_matches     *)
(* and _find_record_matches call without awaiting, or stand-ins with the   *)
(* same methods as plain functions.  Amounts are in cents and differ by    *)
(* nothing or by whole dollars.                                            *)
(***************************************************************************)

\* Most calls of find_matches on one BillingMatcher.
MaxCalls == 2

\* Most transactions the clients return for one call.
MaxTransactions == 2

KnackRecords ==
    {<<[id |-> "rec1", amount |-> 549000]>>,
     <<[id |-> "rec1", amount |-> 549000], [id |-> "rec2", amount |-> 549000]>>}

\* the transactions of the financial sources; two sources may report a
\* transaction under the same id
TransactionPool ==
    {[id |-> "t1", amount |-> 549000], [id |-> "t2", amount |-> 549000],
     [id |-> "t3", amount |-> 274500]}

RECURSIVE TransactionsOfLen(_)
TransactionsOfLen(n) ==
    IF n = 0 THEN {<<>>}
    ELSE UNION {{Append(x, t) : t \in TransactionPool} : x \in TransactionsOfLen(n - 1)}

TransactionLists == UNION {TransactionsOfLen(n) : n \in 0..MaxTransactions}

\* _amounts_match: abs(record_amount - transaction_amount) < 0.01
amounts_match(record_amount, transaction_amount) ==
    Abs(record_amount - transaction_amount) < 1

\* _verify_match: confidence_score > 0.95, in hundredths
verify_match(confidence_score) == confidence_score > 95

\* the confidence scores Nova reports, in hundredths
ConfidenceScores == {90, 97}

\* the skip of line 50 left out
NeverMatched(transaction, matched) == FALSE

\* transaction['id'] in self.matched_transactions
AlreadyMatched(transaction, matched) == transaction.id \in matched

BillingIdle ==
    /\ kpc = "idle"
    /\ financial_clients = "none"
    /\ nova_client = "none"
    /\ matched_transactions = {}
    /\ knack_records = <<>>
    /\ all_transactions = <<>>
    /\ k_ri = 0
    /\ k_ti = 0
    /\ k_matches = <<>>
    /\ accepted = <<>>
    /\ k_calls = 0

\* BillingMatcher.__init__
BillingStart ==
    /\ kpc = "ready"
    /\ financial_clients \in {"none", "repository", "stand-in"}
    /\ nova_client \in {"repository", "stand-in"}
    /\ matched_transactions = {}
    /\ knack_records = <<>>
    /\ all_transactions = <<>>
    /\ k_ri = 0
    /\ k_ti = 0
    /\ k_matches = <<>>
    /\ accepted = <<>>
    /\ k_calls = 0

\* find_matches up to its loop over the records: the clients' transactions
\* are gathered; extending the list by a coroutine raises TypeError
find_matches ==
    /\ kpc = "ready"
    /\ k_calls < MaxCalls
    /\ k_calls' = k_calls + 1
    /\ knack_records' \in KnackRecords
    /\ k_matches' = <<>>
    /\ IF financial_clients = "repository"
       THEN /\ kpc' = "raised"
            /\ UNCHANGED <<all_transactions, k_ri, k_ti>>
       ELSE /\ all_transactions' \in
                   (IF financial_clients = "none" THEN {<<>>} ELSE TransactionLists)
            /\ kpc' = "loop"
            /\ k_ri' = IF all_transactions' = <<>> THEN Len(knack_records') + 1 ELSE 1
            /\ k_ti' = 1
    /\ UNCHANGED <<financial_clients, nova_client, matched_transactions, accepted>>
    /\ UNCHANGED <<consVars, matchVars, guiVars, scoreVars, mainVars, batchVars, novaVars, fieldVars, knackVars>>

\* one pass of `for transaction in transactions` in _find_record_matches
ExamineTransaction ==
    /\ kpc = "loop"
    /\ k_ri <= Len(knack_records)
    /\ LET record == knack_records[k_ri]
           transaction == all_transactions[k_ti]
           go_on == /\ IF k_ti >= Len(all_transactions)
                       THEN k_ri' = k_ri + 1 /\ k_ti' = 1
                       ELSE k_ti' = k_ti + 1 /\ UNCHANGED k_ri
                    /\ UNCHANGED kpc
           skip == go_on /\ UNCHANGED <<matched_transactions, k_matches, accepted>>
       IN  IF AlreadyMatched(transaction, matched_transactions) THEN skip
           ELSE IF ~amounts_match(record.amount, transaction.amount) THEN skip
           ELSE \E check_image \in BOOLEAN :
                  IF ~check_image THEN skip
                  ELSE IF nova_client = "repository"
                  THEN /\ kpc' = "raised"
                       /\ UNCHANGED <<k_ri, k_ti, matched_transactions, k_matches, accepted>>
                  ELSE \E confidence_score \in ConfidenceScores :
                         IF verify_match(confidence_score)
                         THEN LET m == [knack_record |-> record, transaction |-> transaction,
                                        confidence_score |-> confidence_score]
                              IN  /\ k_matches' = Append(k_matches, m)
                                  /\ accepted' = Append(accepted, m @@ [call |-> k_calls])
                                  /\ matched_transactions' =
                                         matched_transactions \cup {transaction.id}
                                  /\ go_on
                         ELSE skip
    /\ UNCHANGED <<financial_clients, nova_client, knack_records, all_transactions, k_calls>>
    /\ UNCHANGED <<consVars, matchVars, guiVars, scoreVars, mainVars, batchVars, novaVars, fieldVars, knackVars>>

\* return matches
ReturnRecordMatches ==
    /\ kpc = "loop"
    /\ k_ri > Len(knack_records)
    /\ kpc' = "ready"
    /\ UNCHANGED <<financial_clients, nova_client, matched_transactions, knack_records,
                   all_transactions, k_ri, k_ti, k_matches, accepted, k_calls>>
    /\ UNCHANGED <<consVars, matchVars, guiVars, scoreVars, mainVars, batchVars, novaVars, fieldVars, knackVars>>

BillingNext == find_matches \/ ExamineTransaction \/ ReturnRecordMatches

(***************************************************************************)
(*       KnackClient.get_unpaid_approved_billings of src/knack_client.py   *)
(*                                                                         *)
(* The server is the list of its answers to the requests for page 1, 2,    *)
(* ...; every page after the last of the list is answered like the last.   *)
(* Of those later pages only the parity is kept: past the list, page       *)
(* alternates between Len(responses) + 1 and Len(responses) + 2.           *)
(***************************************************************************)

\* Most pages the server answers differently.
MaxPages == 2

\* Most records in one answer.
MaxRows == 2

\* Largest total_records the server reports.
MaxTotal == 3

\* the records of an answer with n records, named by the answer's number k
PageRecords(k, n) == [i \in 1..n |-> <<k, i>>]

\* the answers the server may give as its k-th: a status other than 200, or
\* 200 with some records and some total_records
Answers(k) ==
    {[status |-> 500, records |-> <<>>, total_records |-> 0]}
    \cup {[status |-> 200, records |-> PageRecords(k, n), total_records |-> t] :
             n \in 0..MaxRows, t \in 0..MaxTotal}

RECURSIVE AnswerLists(_)
AnswerLists(n) ==
    IF n = 0 THEN {<<>>}
    ELSE UNION {{Append(x, a) : a \in Answers(n)} : x \in AnswerLists(n - 1)}

\* the answer to the request for page p
Response(p) == responses[IF p <= Len(responses) THEN p ELSE Len(responses)]

\* page += 1
NextPage(p) == IF p <= Len(responses) + 1 THEN p + 1 ELSE Len(responses) + 1

KnackIdle ==
    /\ qpc = "idle"
    /\ responses = <<>>
    /\ page = 0
    /\ all_records = <<>>

\* all_records = []; page = 1
KnackStart ==
    /\ qpc = "fetching"
    /\ responses \in UNION {AnswerLists(n) : n \in 1..MaxPages}
    /\ page = 1
    /\ all_records = <<>>

\* one pass of `while True`: the request for the page and its answer
FetchPage ==
    /\ qpc = "fetching"
    /\ LET response == Response(page)
           current == all_records \o response.records
       IN  IF response.status = 200
           THEN /\ all_records' = current
                /\ IF Len(current) >= response.total_records
                   THEN qpc' = "returned" /\ UNCHANGED page
                   ELSE page' = NextPage(page) /\ UNCHANGED qpc
           ELSE /\ qpc' = "raised"
                /\ UNCHANGED <<page, all_records>>
    /\ UNCHANGED responses
    /\ UNCHANGED <<consVars, matchVars, guiVars, scoreVars, mainVars, batchVars, novaVars, fieldVars, bmVars>>

KnackNext == FetchPage

(***************************************************************************)
(*          match_payments and MatchingGUI, as main.py runs them           *)
(***************************************************************************)

\* Most decisions (Confirm Match, Skip Check) the user takes in one session.
MaxDecisions == 2

\* the conversion loop over a whole batch no record of which raises
RECURSIVE ConvertAll(_)
ConvertAll(batch) ==
    IF batch = <<>> THEN <<>>
    ELSE IF FloatOutcome(Head(batch)) = "ok"
         THEN <<FormatInvoice(Head(batch))>> \o ConvertAll(Tail(batch))
         ELSE ConvertAll(Tail(batch))

\* the matching loop over a whole batch: the non-empty candidate lists
RECURSIVE MatchAll(_, _, _)
MatchAll(cs, formatted, matched) ==
    IF cs = <<>> THEN <<>>
    ELSE LET scored_matches ==
                 SortByConfidence(ScoredMatches(Head(cs), ScoringPool(formatted, matched)))
             numbers == {scored_matches[i].invoice.invoice_number : i \in DOMAIN scored_matches}
         IN  (IF scored_matches # <<>> THEN <<scored_matches>> ELSE <<>>)
             \o MatchAll(Tail(cs), formatted, matched \cup numbers)

\* match_payments: matches, _, _ = llama_match(check_data, billing_data)
match_payments(check_data_, billing_data) == MatchAll(check_data_, ConvertAll(billing_data), {})

\* the billing records downloaded for the run: those of the pool whose
\* conversion does not raise, in invoice-number order
Billings ==
    LET rec(n) == CHOOSE v \in InvoicePool : v.field_1418 = n
    IN  <<rec("Andover1002766"), rec("Andover1002816"), rec("Andover1002831"),
          rec("Andover1002999"), rec("Andover1003001")>>

\* normalize_amount of matching_gui.py raises ValueError on text float() rejects
GuiAmountRaises(check) ==
    "amount" \in DOMAIN check /\ check["amount"].kind = "junk"

\* current_matches = potential_matches[i] if i < len(potential_matches) else []
CurrentMatches(pm, index) == IF index < Len(pm) THEN pm[index + 1] ELSE <<>>

\* the row load_current_check selects: the first of highest confidence
HighestConfidenceItem(rows) ==
    IF rows = <<>> THEN 0
    ELSE CHOOSE i \in DOMAIN rows :
            /\ \A j \in DOMAIN rows : rows[j].confidence <= rows[i].confidence
            /\ \A j \in DOMAIN rows : j < i => rows[j].confidence < rows[i].confidence

\* load_current_check for check `cd` at position `index`
LoadCurrentCheck(cd, index) ==
    IF GuiAmountRaises(cd)
    THEN gpc' = "crashed" /\ UNCHANGED <<tree, selected>>
    ELSE /\ tree' = CurrentMatches(potential_matches, index)
         /\ selected' = HighestConfidenceItem(CurrentMatches(potential_matches, index))
         /\ UNCHANGED gpc

\* MatchingGUI.__init__ on the lists main.py passes, up to load_current_check
ReviewStart ==
    /\ all_checks \in DistinctSeqs(CheckPool, MaxChecks) \ {<<>>}
    /\ potential_matches = match_payments(all_checks, Billings)
    /\ current_check_index = 0
    /\ check_data = all_checks[1]
    /\ final_matches = <<>>
    /\ IF GuiAmountRaises(all_checks[1])
       THEN gpc = "crashed" /\ tree = <<>> /\ selected = 0
       ELSE /\ gpc = "open"
            /\ tree = CurrentMatches(potential_matches, 0)
            /\ selected = HighestConfidenceItem(CurrentMatches(potential_matches, 0))

GuiIdle ==
    /\ gpc = "idle"
    /\ all_checks = <<>>
    /\ potential_matches = <<>>
    /\ current_check_index = 0
    /\ check_data = NoneVal
    /\ tree = <<>>
    /\ selected = 0
    /\ final_matches = <<>>

\* the body of next_check, with final_matches already updated by the caller
NextCheckBody ==
    IF current_check_index < Len(all_checks) - 1
    THEN /\ current_check_index' = current_check_index + 1
         /\ check_data' = all_checks[current_check_index + 2]
         /\ LoadCurrentCheck(all_checks[current_check_index + 2], current_check_index + 1)
    ELSE UNCHANGED <<current_check_index, check_data, tree, selected, gpc>>

\* the user clicks a row of the tree
SelectItem ==
    /\ gpc = "open"
    /\ \E i \in DOMAIN tree : i # selected /\ selected' = i
    /\ UNCHANGED <<gpc, all_checks, potential_matches, current_check_index, check_data, tree,
                   final_matches>>
    /\ UNCHANGED <<consVars, matchVars, scoreVars, mainVars, batchVars, novaVars, fieldVars, bmVars, knackVars>>

\* "Previous"
prev_check ==
    /\ gpc = "open"
    /\ current_check_index > 0
    /\ current_check_index' = current_check_index - 1
    /\ check_data' = all_checks[current_check_index]
    /\ LoadCurrentCheck(all_checks[current_check_index], current_check_index - 1)
    /\ UNCHANGED <<all_checks, potential_matches, final_matches>>
    /\ UNCHANGED <<consVars, matchVars, scoreVars, mainVars, batchVars, novaVars, fieldVars, bmVars, knackVars>>

\* "Next"
next_check ==
    /\ gpc = "open"
    /\ current_check_index < Len(all_checks) - 1
    /\ NextCheckBody
    /\ UNCHANGED <<all_checks, potential_matches, final_matches>>
    /\ UNCHANGED <<consVars, matchVars, scoreVars, mainVars, batchVars, novaVars, fieldVars, bmVars, knackVars>>

\* "Confirm Match"
confirm_match ==
    /\ gpc = "open"
    /\ selected # 0
    /\ Len(final_matches) < MaxDecisions
    /\ final_matches' =
          Append(final_matches,
                 [check |-> check_data,
                  invoice |-> potential_matches[current_check_index + 1][selected].invoice])
    /\ NextCheckBody
    /\ UNCHANGED <<all_checks, potential_matches>>
    /\ UNCHANGED <<consVars, matchVars, scoreVars, mainVars, batchVars, novaVars, fieldVars, bmVars, knackVars>>

\* "Skip Check"
skip_check ==
    /\ gpc = "open"
    /\ Len(final_matches) < MaxDecisions
    /\ final_matches' = Append(final_matches, [check |-> check_data, invoice |-> NoneVal])
    /\ NextCheckBody
    /\ UNCHANGED <<all_checks, potential_matches>>
    /\ UNCHANGED <<consVars, matchVars, scoreVars, mainVars, batchVars, novaVars, fieldVars, bmVars, knackVars>>

\* "Finish": the window closes and show_matching_gui returns final_matches
finish ==
    /\ gpc = "open"
    /\ gpc' = "closed"
    /\ UNCHANGED <<all_checks, potential_matches, current_check_index, check_data, tree,
                   selected, final_matches>>
    /\ UNCHANGED <<consVars, matchVars, scoreVars, mainVars, batchVars, novaVars, fieldVars, bmVars, knackVars>>

ReviewNext == SelectItem \/ prev_check \/ next_check \/ confirm_match \/ skip_check \/ finish

(***************************************************************************)
(*                          process_input_folder                           *)
(***************************************************************************)

\* Most PDF files in the input folder.
MaxFiles == 2

\* the PDF files a folder may hold, by base name
PdfPool == {"3576", "5856", "5857"}

\* an exception that left the function
Raised == [raised |-> "TypeError"]

\* the true reading of the check in file f, as analyze_check_image returns it
FileReading(f) ==
    [check_number |-> f, amount |-> "$5,490.00", date |-> "10/02/2024",
     payee |-> "The Mapleton", from |-> "Kurt A Elliott and Penny K Elliott",
     from_address |-> "307 Village Rd", memo |-> "rent", bank_name |-> "Bank of America",
     pdf_path |-> f, image_path |-> f]

\* What one call of analyze_check_image may give for file f: None (the
\* service raised or answered nothing usable), the true reading, a reading
\* with another amount, a reading whose address is a JSON object.
FileOutcomes(f) ==
    {NoneVal,
     FileReading(f),
     [FileReading(f) EXCEPT !["amount"] = "$5,940.00"],
     [FileReading(f) EXCEPT !["from_address"] = "{\"street\": \"307 Village Rd\"}"]}

\* results after calls from..to of the service
RECURSIVE CollectCalls(_, _, _, _)
CollectCalls(res, outs, from, to) ==
    IF from > to THEN res
    ELSE CollectCalls(Collect(res, outs[from]), outs, from + 1, to)

\* the tail of analyze_check_with_consensus from "Take the most common result"
ConsensusOf(res) ==
    IF VoteRaises(res) THEN Raised
    ELSE IF HasAllRequired(Vote(res)) THEN Vote(res) ELSE NoneVal

\* analyze_check_with_consensus(pdf_path), given whether the conversion
\* succeeds and what the successive calls of analyze_check_image give
analyze_check_with_consensus(converts, outs) ==
    IF ~converts THEN NoneVal
    ELSE LET first == CollectCalls(<<>>, outs, 1, num_attempts)
         IN  IF first = <<>> THEN NoneVal
             ELSE IF AllIdentical(first) THEN first[1]
             ELSE IF num_attempts = 2
                  THEN ConsensusOf(CollectCalls(first, outs, num_attempts + 1,
                                                num_attempts + extra_attempts))
                  ELSE ConsensusOf(first)

BatchIdle ==
    /\ bpc = "idle"
    /\ pdf_files = <<>>
    /\ bi = 0
    /\ png_ok = FALSE
    /\ service = <<>>
    /\ batch_check_data = <<>>

\* pdf_files = [f for f in os.listdir(folder_path) if f.endswith('.pdf')]
BatchStart ==
    /\ bpc = "loop"
    /\ pdf_files \in DistinctSeqs(PdfPool, MaxFiles)
    /\ bi = 1
    /\ png_ok = FALSE
    /\ service = <<>>
    /\ batch_check_data = <<>>

\* the loop body up to the conversion of the next file and the report on its
\* PNG; the answers the file will get from the service are fixed here
ConvertFile ==
    /\ bpc = "loop"
    /\ bi <= Len(pdf_files)
    /\ png_ok' \in BOOLEAN
    /\ service' \in [1..(num_attempts + extra_attempts) -> FileOutcomes(pdf_files[bi])]
    /\ bpc' = "analyze"
    /\ UNCHANGED <<pdf_files, bi, batch_check_data>>
    /\ UNCHANGED <<consVars, matchVars, guiVars, scoreVars, mainVars, novaVars, fieldVars, bmVars, knackVars>>

\* check_info = await analyze_check_with_consensus(pdf_path); if check_info:
\* the paths are set and the record is appended.  The answers of the service
\* to this file are used up.
AnalyzeFile ==
    /\ bpc = "analyze"
    /\ LET check_info == analyze_check_with_consensus(png_ok, service)
       IN  IF check_info = Raised
           THEN bpc' = "raised" /\ UNCHANGED <<bi, batch_check_data>>
           ELSE /\ batch_check_data' =
                      IF check_info = NoneVal THEN batch_check_data
                      ELSE Append(batch_check_data,
                                  [f \in DOMAIN check_info \cup {"pdf_path", "png_path"} |->
                                      IF f \in {"pdf_path", "png_path"} THEN pdf_files[bi]
                                      ELSE check_info[f]])
                /\ bi' = bi + 1
                /\ bpc' = "loop"
    /\ png_ok' = FALSE
    /\ service' = <<>>
    /\ UNCHANGED pdf_files
    /\ UNCHANGED <<consVars, matchVars, guiVars, scoreVars, mainVars, novaVars, fieldVars, bmVars, knackVars>>

\* return check_data
ReturnCheckData ==
    /\ bpc = "loop"
    /\ bi > Len(pdf_files)
    /\ bpc' = "done"
    /\ UNCHANGED <<pdf_files, bi, png_ok, service, batch_check_data>>
    /\ UNCHANGED <<consVars, matchVars, guiVars, scoreVars, mainVars, novaVars, fieldVars, bmVars, knackVars>>

BatchNext == ConvertFile \/ AnalyzeFile \/ ReturnCheckData

(***************************************************************************)
(*        match_checks_with_invoices of scripts/process_payments.py        *)
(*                                                                         *)
(* Amounts are floats holding whole cents, written here in cents.  The     *)
(* amounts below differ by nothing or by whole dollars, so that every      *)
(* comparison of a difference with 50 or with 0.01 is exact.               *)
(***************************************************************************)

\* Most checks handed to the Nova matching.
MaxNovaChecks == 2

\* the check ids (PDF stems), by position in check_data
NovaCheckIds == <<"5856", "3576", "5857">>

\* the amounts read off a check and reported by a re-analysis
NovaAmounts == {544000, 549000}

\* A check as analyze_check_image returns it, with or without an
\* 'Amount Confidence' of LOW.
NovaCheck(id, amount, low) ==
    LET base == [pdf_path |-> id, check_number |-> id, amount |-> amount,
                 date |-> "10/02/2024", payee |-> "The Mapleton"]
    IN  IF low THEN base @@ ("Amount Confidence" :> "LOW") ELSE base

NovaChecks(id) == {NovaCheck(id, a, low) : a \in NovaAmounts, low \in BOOLEAN}

\* check_data: between one and MaxNovaChecks checks, on distinct files
RECURSIVE NovaBatches(_)
NovaBatches(n) ==
    IF n = 0 THEN {<<>>}
    ELSE UNION {{Append(b, c) : c \in NovaChecks(NovaCheckIds[n])} : b \in NovaBatches(n - 1)}

\* invoice_data
NovaInvoices ==
    <<[invoice_number |-> "Andover1002816", amount |-> 549000],
      [invoice_number |-> "Andover1002817", amount |-> 548000],
      [invoice_number |-> "Andover1002766", amount |-> 274500]>>

\* `amount_diff <= 50`, in cents
reanalysis_tolerance == 5000

\* `> 0.01`, in cents
material_difference == 1

\* filtered_check of one check; every key read is present in the checks above
FilteredCheck(check) ==
    [check_id |-> check.pdf_path, amount |-> check.amount, date |-> check.date,
     payee |-> check.payee, check_number |-> check.check_number,
     amount_confidence |-> Get(check, "Amount Confidence", "UNKNOWN")]

\* check.get('Amount Confidence') == 'LOW'
FlaggedLow(check) == Get(check, "Amount Confidence", "") = "LOW"

\* The answer of Nova Pro to a request, parsed: one match per check of the
\* request, carrying the amount the request gave for it, with every invoice
\* of the request as a matching invoice.
NovaAnswer(request_checks) ==
    [k \in DOMAIN request_checks |->
        [check_id |-> request_checks[k].check_id,
         amount |-> request_checks[k].amount,
         matching_invoices |-> NovaInvoices]]

\* what match_data gives back: text that parses to the answer, or text that
\* json.loads rejects
MatchDataOutcomes(request_checks) ==
    {[parses |-> TRUE, data |-> NovaAnswer(request_checks)], [parses |-> FALSE, data |-> <<>>]}

\* the 'checks' sent with the second and later requests, had the list been
\* copied before the update
StaleRequestChecks(updated, before) == before

\* request['checks'] = filtered_checks
RequestChecks(updated, before) == updated

\* What reanalyze_check returns: the new result when the service reports
\* HIGH (its Numerical a number, or a string), the check it was given when
\* the service reports something else ("same") or anything raised
\* ("failed"), None when the service answered nothing.
ReanalysisOutcomes ==
    {[kind |-> "high", amount |-> a] : a \in NovaAmounts}
    \cup {[kind |-> k, amount |-> 0] : k \in {"high_text", "same", "failed", "none"}}

\* next(c for c in check_data if Path(c['pdf_path']).stem == check_id)
OriginalCheck(check_id) ==
    n_check_data[CHOOSE k \in DOMAIN n_check_data :
                    /\ n_check_data[k].pdf_path = check_id
                    /\ \A j \in 1..(k - 1) : n_check_data[j].pdf_path # check_id]

\* the loop positions after this invoice: the next invoice, or after a
\* `break` or the last invoice the first invoice of the next match
NextPosition(brk) ==
    IF brk \/ ii >= Len(loop_matches[mi].matching_invoices)
    THEN mi' = mi + 1 /\ ii' = 1
    ELSE ii' = ii + 1 /\ UNCHANGED mi

NovaIdle ==
    /\ npc = "idle"
    /\ n_check_data = <<>>
    /\ filtered_checks = <<>>
    /\ checks_needing_reanalysis = <<>>
    /\ matches_data = <<>>
    /\ loop_matches = <<>>
    /\ mi = 0
    /\ ii = 0
    /\ requests = <<>>
    /\ reanalyses = <<>>
    /\ n_error = ""

NovaStart ==
    /\ npc = "start"
    /\ n_check_data \in UNION {NovaBatches(n) : n \in 1..MaxNovaChecks}
    /\ filtered_checks = <<>>
    /\ checks_needing_reanalysis = <<>>
    /\ matches_data = <<>>
    /\ loop_matches = <<>>
    /\ mi = 0
    /\ ii = 0
    /\ requests = <<>>
    /\ reanalyses = <<>>
    /\ n_error = ""

\* from the entry to the first matches_data: the filter loop, the first
\* request to match_data and the parse of its answer
InitialMatch ==
    /\ npc = "start"
    /\ LET filtered == [k \in DOMAIN n_check_data |-> FilteredCheck(n_check_data[k])]
       IN  /\ filtered_checks' = filtered
           /\ checks_needing_reanalysis' = SelectSeq(n_check_data, FlaggedLow)
           /\ requests' = <<filtered>>
           /\ \E answer \in MatchDataOutcomes(filtered) :
                IF answer.parses
                THEN /\ matches_data' = answer.data
                     /\ loop_matches' = answer.data
                     /\ mi' = 1 /\ ii' = 1
                     /\ npc' = "loop"
                     /\ UNCHANGED n_error
                ELSE /\ npc' = "raised" /\ n_error' = "JSONDecodeError"
                     /\ UNCHANGED <<matches_data, loop_matches, mi, ii>>
    /\ UNCHANGED <<n_check_data, reanalyses>>
    /\ UNCHANGED <<consVars, matchVars, guiVars, scoreVars, mainVars, batchVars, fieldVars, bmVars, knackVars>>

\* one pass of the inner loop `for invoice in match.get('matching_invoices', [])`
ExamineInvoice ==
    /\ npc = "loop"
    /\ mi <= Len(loop_matches)
    /\ LET match == loop_matches[mi]
           invoice == match.matching_invoices[ii]
           amount_diff == Abs(match.amount - invoice.amount)
           known == \E k \in DOMAIN filtered_checks :
                        filtered_checks[k].check_id = match.check_id
           original_check == OriginalCheck(match.check_id)
           go_on == /\ NextPosition(FALSE)
                    /\ UNCHANGED <<npc, n_error, filtered_checks, matches_data, requests>>
           raise(e) == /\ npc' = "raised" /\ n_error' = e
                       /\ UNCHANGED <<mi, ii, filtered_checks, matches_data, requests>>
       IN  IF ~(amount_diff <= reanalysis_tolerance /\ known)
           THEN go_on /\ UNCHANGED reanalyses
           ELSE IF original_check \in Range(checks_needing_reanalysis)
           THEN go_on /\ UNCHANGED reanalyses
           ELSE \E new_analysis \in ReanalysisOutcomes :
                  /\ reanalyses' = Append(reanalyses,
                                          [check_id |-> match.check_id, kind |-> new_analysis.kind,
                                           amount |-> new_analysis.amount])
                  /\ CASE new_analysis.kind = "none" -> go_on
                       [] new_analysis.kind \in {"same", "failed"} -> raise("KeyError")
                       [] new_analysis.kind = "high_text" -> raise("TypeError")
                       [] new_analysis.kind = "high" ->
                            IF Abs(new_analysis.amount - original_check.amount)
                                   > material_difference
                            THEN LET updated ==
                                       [k \in DOMAIN filtered_checks |->
                                           IF filtered_checks[k].check_id = match.check_id
                                           THEN [filtered_checks[k] EXCEPT
                                                    !.amount = new_analysis.amount,
                                                    !.amount_confidence = "HIGH"]
                                           ELSE filtered_checks[k]]
                                     sent == RequestChecks(updated, filtered_checks)
                                 IN  /\ filtered_checks' = updated
                                     /\ requests' = Append(requests, sent)
                                     /\ \E answer \in MatchDataOutcomes(sent) :
                                          IF answer.parses
                                          THEN /\ matches_data' = answer.data
                                               /\ NextPosition(TRUE)
                                               /\ UNCHANGED <<npc, n_error>>
                                          ELSE /\ npc' = "raised"
                                               /\ n_error' = "JSONDecodeError"
                                               /\ UNCHANGED <<mi, ii, matches_data>>
                            ELSE go_on
    /\ UNCHANGED <<n_check_data, checks_needing_reanalysis, loop_matches>>
    /\ UNCHANGED <<consVars, matchVars, guiVars, scoreVars, mainVars, batchVars, fieldVars, bmVars, knackVars>>

\* return matches_data
ReturnMatchesData ==
    /\ npc = "loop"
    /\ mi > Len(loop_matches)
    /\ npc' = "returned"
    /\ UNCHANGED <<n_check_data, filtered_checks, checks_needing_reanalysis, matches_data,
                   loop_matches, mi, ii, requests, reanalyses, n_error>>
    /\ UNCHANGED <<consVars, matchVars, guiVars, scoreVars, mainVars, batchVars, fieldVars, bmVars, knackVars>>

NovaNext == InitialMatch \/ ExamineInvoice \/ ReturnMatchesData

(***************************************************************************)
(*                            main() of main.py                            *)
(***************************************************************************)

\* a Python list held where None may be held instead
List(seq) == [list |-> seq]

\* what download_billings returns: the records fetched, or None when its
\* `except Exception` caught a failure
DownloadOutcomes == {NoneVal, List(Billings), List(<<>>)}

MainIdle ==
    /\ rpc = "idle"
    /\ billings = NoneVal
    /\ main_check_data = <<>>
    /\ main_matches = <<>>
    /\ artifact = NoneVal

MainStart ==
    /\ rpc = "download"
    /\ billings = NoneVal
    /\ main_check_data = <<>>
    /\ main_matches = <<>>
    /\ artifact = NoneVal

\* billings = await download_billings(folder_path)
DownloadBillings ==
    /\ rpc = "download"
    /\ billings' \in DownloadOutcomes
    /\ rpc' = "ocr"
    /\ UNCHANGED <<main_check_data, main_matches, artifact>>
    /\ UNCHANGED <<consVars, matchVars, guiVars, scoreVars, batchVars, novaVars, fieldVars, bmVars, knackVars>>

\* check_data = await process_checks(folder_path); if not check_data: return
ProcessChecks ==
    /\ rpc = "ocr"
    /\ main_check_data' \in DistinctSeqs(CheckPool, MaxChecks)
    /\ rpc' = IF main_check_data' = <<>> THEN "returned" ELSE "match"
    /\ UNCHANGED <<billings, main_matches, artifact>>
    /\ UNCHANGED <<consVars, matchVars, guiVars, scoreVars, batchVars, novaVars, fieldVars, bmVars, knackVars>>

\* matches = match_payments(check_data, billings); iterating None raises TypeError
MatchPayments ==
    /\ rpc = "match"
    /\ IF billings = NoneVal
       THEN rpc' = "raised" /\ UNCHANGED main_matches
       ELSE /\ main_matches' = match_payments(main_check_data, billings.list)
            /\ rpc' = "gui"
    /\ UNCHANGED <<billings, main_check_data, artifact>>
    /\ UNCHANGED <<consVars, matchVars, guiVars, scoreVars, batchVars, novaVars, fieldVars, bmVars, knackVars>>

\* show_matching_gui(check_data, matches) up to app.exec_(): MatchingGUI.__init__
OpenGui ==
    /\ rpc = "gui"
    /\ all_checks' = main_check_data
    /\ potential_matches' = main_matches
    /\ current_check_index' = 0
    /\ check_data' = main_check_data[1]
    /\ final_matches' = <<>>
    /\ IF GuiAmountRaises(main_check_data[1])
       THEN gpc' = "crashed" /\ tree' = <<>> /\ selected' = 0 /\ rpc' = "raised"
       ELSE /\ gpc' = "open"
            /\ tree' = CurrentMatches(main_matches, 0)
            /\ selected' = HighestConfidenceItem(CurrentMatches(main_matches, 0))
            /\ rpc' = "review"
    /\ UNCHANGED <<billings, main_check_data, main_matches, artifact>>
    /\ UNCHANGED <<consVars, matchVars, scoreVars, batchVars, novaVars, fieldVars, bmVars, knackVars>>

\* show_matching_gui has returned: if final_matches: json.dump(final_matches, f)
SaveFinalMatches ==
    /\ rpc = "review"
    /\ gpc = "closed"
    /\ artifact' = IF final_matches # <<>>
                   THEN [json |-> "array", items |-> final_matches]
                   ELSE artifact
    /\ rpc' = "returned"
    /\ UNCHANGED <<billings, main_check_data, main_matches>>
    /\ UNCHANGED <<consVars, matchVars, guiVars, scoreVars, batchVars, novaVars, fieldVars, bmVars, knackVars>>

MainNext ==
    \/ DownloadBillings \/ ProcessChecks \/ MatchPayments \/ OpenGui
    \/ SelectItem \/ prev_check \/ next_check \/ confirm_match \/ skip_check \/ finish
    \/ SaveFinalMatches

(***************************************************************************)
(*                            Specifications                               *)
(***************************************************************************)

ConsInit == ConsStart /\ MatchIdle /\ GuiIdle /\ ScoreIdle /\ MainIdle /\ BatchIdle /\ NovaIdle /\ FieldsIdle /\ BillingIdle /\ KnackIdle

\* one call of analyze_check_with_consensus
SpecConsensus == ConsInit /\ [][ConsNext]_vars

MatchInit == MatchStart /\ ConsIdle /\ GuiIdle /\ ScoreIdle /\ MainIdle /\ BatchIdle /\ NovaIdle /\ FieldsIdle /\ BillingIdle /\ KnackIdle

\* one call of match_checks_with_invoices
SpecMatch == MatchInit /\ [][MatchNext]_vars

ReviewInit == ReviewStart /\ ConsIdle /\ MatchIdle /\ ScoreIdle /\ MainIdle /\ BatchIdle /\ NovaIdle /\ FieldsIdle /\ BillingIdle /\ KnackIdle

\* one review session of main.py: match_payments, then the MatchingGUI
SpecReview == ReviewInit /\ [][ReviewNext]_vars

ScoreInit == ScoreStart /\ ConsIdle /\ MatchIdle /\ GuiIdle /\ MainIdle /\ BatchIdle /\ NovaIdle /\ FieldsIdle /\ BillingIdle /\ KnackIdle

\* is_match applied once to a check and a formatted invoice
SpecScore == ScoreInit /\ [][ScoreNext]_vars

MainInit == MainStart /\ ConsIdle /\ MatchIdle /\ GuiIdle /\ ScoreIdle /\ BatchIdle /\ NovaIdle /\ FieldsIdle /\ BillingIdle /\ KnackIdle

\* one run of main(): download, extraction, matching, review, save
SpecMain == MainInit /\ [][MainNext]_vars

BatchInit == BatchStart /\ ConsIdle /\ MatchIdle /\ GuiIdle /\ ScoreIdle /\ MainIdle /\ NovaIdle /\ FieldsIdle /\ BillingIdle /\ KnackIdle

\* process_input_folder over the PDF files of one folder
SpecBatch == BatchInit /\ [][BatchNext]_vars

NovaInit ==
    NovaStart /\ ConsIdle /\ MatchIdle /\ GuiIdle /\ ScoreIdle /\ MainIdle /\ BatchIdle /\ FieldsIdle /\ BillingIdle /\ KnackIdle

\* one call of the Nova match_checks_with_invoices
SpecNova == NovaInit /\ [][NovaNext]_vars

FieldsInit ==
    FieldsStart /\ ConsIdle /\ MatchIdle /\ GuiIdle /\ ScoreIdle /\ MainIdle /\ BatchIdle /\ NovaIdle /\ BillingIdle /\ KnackIdle

BillingInit ==
    BillingStart /\ ConsIdle /\ MatchIdle /\ GuiIdle /\ ScoreIdle /\ MainIdle /\ BatchIdle /\ NovaIdle /\ FieldsIdle /\ KnackIdle

\* a BillingMatcher and the calls of find_matches on it
SpecBilling == BillingInit /\ [][BillingNext]_vars

KnackInit ==
    KnackStart /\ ConsIdle /\ MatchIdle /\ GuiIdle /\ ScoreIdle /\ MainIdle /\ BatchIdle /\ NovaIdle /\ FieldsIdle /\ BillingIdle

\* one call of get_unpaid_approved_billings; the coroutine goes on with its
\* loop for as long as the server answers
SpecKnack == KnackInit /\ [][KnackNext]_vars /\ WF_vars(FetchPage)

\* one application of a field scorer
SpecFields == FieldsInit /\ [][FieldsNext]_vars

(***************************************************************************)
(*                Claims on analyze_check_with_consensus                   *)
(***************************************************************************)

Voted == verdict \in {"consensus", "insufficient"}

Returned == cpc = "done"

\* the non-empty values the attempts reported for field f
C1_NonEmpty(f) == {attempts[i][f] : i \in {j \in DOMAIN attempts : Truthy(attempts[j], f)}}

C1_Occurrences(f, v) ==
    Cardinality({i \in DOMAIN attempts : Truthy(attempts[i], f) /\ attempts[i][f] = v})

C1_FirstSeen(f, v) ==
    CHOOSE i \in DOMAIN attempts :
        /\ Truthy(attempts[i], f) /\ attempts[i][f] = v
        /\ \A j \in 1..(i - 1) : ~(Truthy(attempts[j], f) /\ attempts[j][f] = v)

\* C1: once the vote has been taken, every one of the eight fields that some
\* attempt reported non-empty carries in the consensus the value reported most
\* often, and of two equally frequent values the one reported first; a field
\* no attempt reported non-empty is not in the consensus.
C1_MajorityFirstSeen ==
    Voted =>
        \A f \in Range(required_fields) :
            IF C1_NonEmpty(f) = {}
            THEN f \notin DOMAIN consensus
            ELSE /\ f \in DOMAIN consensus
                 /\ consensus[f] \in C1_NonEmpty(f)
                 /\ \A u \in C1_NonEmpty(f) \ {consensus[f]} :
                       \/ C1_Occurrences(f, consensus[f]) > C1_Occurrences(f, u)
                       \/ /\ C1_Occurrences(f, consensus[f]) = C1_Occurrences(f, u)
                          /\ C1_FirstSeen(f, consensus[f]) < C1_FirstSeen(f, u)

\* a vote over four readings in which two amounts are reported twice each
\* and the one reported first, not the true one, is the consensus
C1_Witness ==
    /\ verdict = "consensus"
    /\ Len(results) = 4
    /\ C1_Occurrences("amount", "$5,490.00") = 2
    /\ C1_Occurrences("amount", "$5,940.00") = 2
    /\ C1_FirstSeen("amount", "$5,940.00") = 1
    /\ consensus["amount"] = "$5,940.00"

\* C2 (as claimed): whatever analyze_check_with_consensus returns as a check
\* record, on the immediate-acceptance path or after the vote, has a value for
\* check_number, amount, date, payee and from.
C2_ReturnedRecordComplete ==
    (Returned /\ ret # NoneVal) => \A f \in must_have : Truthy(ret, f)

\* C3: extraction runs twice before anything is returned, and when the two
\* attempts return identical readings the function has returned that reading
\* and made no third call.
C3_IdenticalAcceptedAtOnce ==
    /\ (Returned /\ verdict # "no_png") => Len(attempts) >= 2
    /\ (/\ Len(attempts) >= 2
        /\ attempts[1] # NoneVal
        /\ attempts[1] = attempts[2])
       => (Returned /\ verdict = "identical" /\ ret = attempts[1] /\ Len(attempts) = 2)

\* two identical readings of a complete check, accepted
C3_Witness ==
    /\ Len(attempts) = 2
    /\ attempts[1] = BaseReading
    /\ attempts[2] = BaseReading
    /\ ret = BaseReading
    /\ verdict = "identical"

\* C4: when the first two attempts both return a reading and the readings
\* differ, the vote is taken after exactly two more calls; no check ever gets
\* more than four calls.
C4_TwoMoreThenVote ==
    /\ Len(attempts) <= 4
    /\ Voted => Len(attempts) = 4
    /\ (/\ Len(attempts) >= 2
        /\ attempts[1] # NoneVal
        /\ attempts[2] # NoneVal
        /\ attempts[1] # attempts[2])
       => IF Returned THEN Voted /\ Len(attempts) = 4 ELSE cpc = "extra"

\* two differing readings, then two more calls, then the vote
C4_Witness ==
    /\ Voted
    /\ Len(attempts) = 4
    /\ attempts[1] # NoneVal
    /\ attempts[2] # NoneVal
    /\ attempts[1] # attempts[2]

\* C29 (as claimed): a reading is returned without a vote only when at
\* least two attempts succeeded and returned it.
C29_IdenticalNeedsTwoReadings ==
    verdict = "identical" =>
        Cardinality({i \in DOMAIN attempts : attempts[i] # NoneVal /\ attempts[i] = ret}) >= 2


(***************************************************************************)
(*                 Claims on match_checks_with_invoices                    *)
(***************************************************************************)

MatchDone == mpc = "done"

\* the candidate list `matches` holds for check c, empty when it holds none
CandidatesOf(c) ==
    IF \E k \in DOMAIN matches : matches[k][1].check = c
    THEN matches[CHOOSE k \in DOMAIN matches : matches[k][1].check = c]
    ELSE <<>>

\* the invoice numbers offered for check c
ListedFor(c) == {CandidatesOf(c)[k].invoice.invoice_number : k \in DOMAIN CandidatesOf(c)}

\* the invoice numbers offered for any check
ListedAnywhere ==
    UNION {{matches[k][n].invoice.invoice_number : n \in DOMAIN matches[k]} : k \in DOMAIN matches}

\* C7 (as claimed): 0.3 is a minimum: a pair is in the check's candidate list
\* exactly when its composite confidence is at least 0.3.
C7_FloorIsMinimum ==
    MatchDone =>
        \A i \in DOMAIN checks : \A k \in DOMAIN formatted_invoices :
            (is_match(checks[i], formatted_invoices[k]) >= 3 * ScoreUnit)
            <=> (formatted_invoices[k].invoice_number \in ListedFor(checks[i]))

\* C8: every candidate list is in order of non-increasing confidence.
C8_SortedByConfidence ==
    \A k \in DOMAIN matches : \A i, j \in DOMAIN matches[k] :
        i < j => matches[k][i].confidence >= matches[k][j].confidence

\* a list whose best candidate is a later invoice of the batch than its second
C8_Witness ==
    \E k \in DOMAIN matches :
        /\ Len(matches[k]) >= 2
        /\ matches[k][1].confidence > matches[k][2].confidence
        /\ \E a, b \in DOMAIN formatted_invoices :
              /\ a > b
              /\ formatted_invoices[a] = matches[k][1].invoice
              /\ formatted_invoices[b] = matches[k][2].invoice

\* C9: the invoices offered for a check are those of the whole converted batch
\* that clear the floor against it, whether or not an earlier check lists
\* them: two checks that both clear the floor against an invoice both list it.
C9_PoolNotConsumed ==
    /\ \A i \in 1..(ci - 1) :
          ListedFor(checks[i]) =
              {formatted_invoices[k].invoice_number :
                  k \in {n \in DOMAIN formatted_invoices :
                            is_match(checks[i], formatted_invoices[n]) > 3 * ScoreUnit}}
    /\ \A i, j \in 1..(ci - 1) : \A k \in DOMAIN formatted_invoices :
          (/\ i # j
           /\ is_match(checks[i], formatted_invoices[k]) > 3 * ScoreUnit
           /\ is_match(checks[j], formatted_invoices[k]) > 3 * ScoreUnit)
          => formatted_invoices[k].invoice_number \in ListedFor(checks[i]) \cap ListedFor(checks[j])

\* two checks of one batch that list the same invoice, the later one too
C9_Witness ==
    /\ MatchDone
    /\ Len(checks) = 2
    /\ ListedFor(checks[1]) \cap ListedFor(checks[2]) # {}

\* every check is the check of exactly one candidate list, or is in
\* unmatched_checks, and not both
C10_ChecksPartitioned ==
    /\ \A k \in DOMAIN matches : matches[k] # <<>>
    /\ Len(matches) + Len(unmatched_checks) = Len(checks)
    /\ \A i \in DOMAIN checks :
          LET listed == {k \in DOMAIN matches : \A n \in DOMAIN matches[k] : matches[k][n].check = checks[i]}
          IN  IF checks[i] \in Range(unmatched_checks)
              THEN listed = {}
              ELSE Cardinality(listed) = 1

\* C10 (as claimed): on return every check is in exactly one of matches and
\* unmatched_checks, and an invoice of the input is in unmatched_invoices
\* exactly when no candidate list holds it.
C10_PartitionsInputs ==
    MatchDone =>
        /\ C10_ChecksPartitioned
        /\ \A k \in DOMAIN invoices :
              (\E u \in DOMAIN unmatched_invoices :
                  unmatched_invoices[u].original_data = invoices[k])
              <=> (\A m \in DOMAIN matches : \A n \in DOMAIN matches[m] :
                      matches[m][n].invoice.original_data # invoices[k])

\* C10 (amended): on return every check is in exactly one of matches and
\* unmatched_checks; an invoice whose amount converted is in unmatched_invoices
\* exactly when no candidate of any list carries its invoice number; an
\* invoice whose amount did not convert is in none of the outputs.
C10_PartitionsConverted ==
    MatchDone =>
        /\ C10_ChecksPartitioned
        /\ \A k \in DOMAIN formatted_invoices :
              (formatted_invoices[k] \in Range(unmatched_invoices))
              <=> (formatted_invoices[k].invoice_number \notin ListedAnywhere)
        /\ Range(unmatched_invoices) \subseteq Range(formatted_invoices)
        /\ \A k \in DOMAIN invoices :
              FloatOutcome(invoices[k]) # "ok" =>
                  /\ \A u \in DOMAIN unmatched_invoices :
                        unmatched_invoices[u].original_data # invoices[k]
                  /\ \A m \in DOMAIN matches : \A n \in DOMAIN matches[m] :
                        matches[m][n].invoice.original_data # invoices[k]

\* a returned batch with a listed invoice, an unmatched invoice, an invoice
\* whose amount did not convert, and an unmatched check
C10_Witness ==
    /\ MatchDone
    /\ Len(formatted_invoices) < Len(invoices)
    /\ unmatched_invoices # <<>>
    /\ matches # <<>>
    /\ unmatched_checks # <<>>


(***************************************************************************)
(*                         Claims on MatchingGUI                           *)
(***************************************************************************)

\* the checks for which final_matches holds a decision
Decided == {final_matches[i].check : i \in DOMAIN final_matches}

\* the invoice numbers of the rows shown
Offered == {tree[k].invoice.invoice_number : k \in DOMAIN tree}

\* C5 (as claimed): while a check without a decision is shown, no invoice the
\* user has accepted for another check is among the candidates offered.
C5_AcceptedInvoiceWithdrawn ==
    (gpc = "open" /\ check_data \notin Decided) =>
        \A i \in DOMAIN final_matches :
            final_matches[i].invoice # NoneVal
            => final_matches[i].invoice.invoice_number \notin Offered

\* C6 (as claimed): final_matches holds at most one entry per check.
C6_OneDecisionPerCheck ==
    \A i, j \in DOMAIN final_matches :
        i # j => final_matches[i].check # final_matches[j].check

\* C28 (as claimed): the rows shown are candidates computed for the check
\* shown, and every confirmed entry of final_matches pairs a check with an
\* invoice that was scored against that check.
C28_CandidatesOfShownCheck ==
    /\ gpc = "open" => \A k \in DOMAIN tree : tree[k].check = check_data
    /\ \A i \in DOMAIN final_matches :
          final_matches[i].invoice # NoneVal =>
              \E a \in DOMAIN potential_matches : \E b \in DOMAIN potential_matches[a] :
                  /\ potential_matches[a][b].check = final_matches[i].check
                  /\ potential_matches[a][b].invoice = final_matches[i].invoice


(***************************************************************************)
(*                    Claims on is_match and the scorers                   *)
(***************************************************************************)

Scored == spc = "scored"

\* the amount text of a record is missing or is no number
AmountUnparsable(d) == "amount" \notin DOMAIN d \/ d["amount"].kind # "money"

\* C12 (as claimed): the confidence is_match returns is the sum of the four
\* scores weighted 0.4, 0.2, 0.3, 0.1 and lies in [0, 1].
C12_WeightedSumInUnitRange ==
    Scored =>
        /\ ~s_scores.raised =>
              s_scores.total_score = 4 * s_scores.amount_score + 2 * s_scores.date_score
                                     + 3 * s_scores.name_score + 1 * s_scores.payee_score
        /\ s_scores.total_score >= 0
        /\ s_scores.total_score <= 10 * ScoreUnit

\* C19 (as claimed): when the amount of the check or of the invoice does not
\* parse, the call returns and the amount score it used is 0.
C19_UnparsableAmountScoresZero ==
    (Scored /\ (AmountUnparsable(s_check) \/ AmountUnparsable(s_invoice))) =>
        (s_scores.raised \/ s_scores.amount_score = 0)

\* the number of days between two dates that parse
C20_Days(a, b) == Abs(Ordinal(a) - Ordinal(b))

\* C20: the date score is 1.0 for the same day, 0.9 up to 7 days apart, 0.8
\* up to 30, 0.5 up to 90 and 0.0 from 91 on, whichever date comes first and
\* in whichever order the two are passed; a date that is missing or does not
\* parse gives 0.0.
C20_DateStepFunction ==
    (Scored /\ ~s_scores.raised) =>
        LET a == s_check.date
            b == s_invoice.date
        IN  /\ (Parses(a) /\ Parses(b)) =>
                  s_scores.date_score =
                      (CASE C20_Days(a, b) = 0 -> ScoreUnit
                         [] C20_Days(a, b) \in 1..7 -> (9 * ScoreUnit) \div 10
                         [] C20_Days(a, b) \in 8..30 -> (8 * ScoreUnit) \div 10
                         [] C20_Days(a, b) \in 31..90 -> (5 * ScoreUnit) \div 10
                         [] C20_Days(a, b) >= 91 -> 0)
            /\ ~(Parses(a) /\ Parses(b)) => s_scores.date_score = 0
            /\ get_date_score(b, a) = s_scores.date_score

\* two dates exactly 90 days apart score 0.5
C20_Witness ==
    /\ Scored
    /\ ~s_scores.raised
    /\ s_check.date = Date(12, 31, 2024)
    /\ s_invoice.date = Date(10, 2, 2024)
    /\ s_scores.date_score = (5 * ScoreUnit) \div 10

\* C18 (as claimed): no record of a batch makes match_checks_with_invoices
\* leave by an exception; every call runs on to return its three lists.
C18_BatchNeverAborts == mpc # "raised"


(***************************************************************************)
(*                        Claims on main() of main.py                      *)
(***************************************************************************)

\* C11 (as claimed): the document main() saves is an object holding the
\* matched payments, each with its confidence, the unmatched checks and the
\* unmatched invoices.
C11_ArtifactHasThreeCategories ==
    artifact # NoneVal =>
        /\ artifact.json = "object"
        /\ {"matched_payments", "unmatched_checks", "unmatched_invoices"}
               \subseteq DOMAIN artifact.members
        /\ \A i \in DOMAIN artifact.members["matched_payments"] :
               "confidence" \in DOMAIN artifact.members["matched_payments"][i]

\* C17 (as claimed): a run whose billing download failed ends by an
\* exception, having matched nothing, opened no review and saved nothing.
C17_DownloadFailureIsFatal ==
    (rpc \in {"returned", "raised"} /\ billings = NoneVal) =>
        /\ rpc = "raised"
        /\ main_matches = <<>>
        /\ gpc = "idle"
        /\ artifact = NoneVal


\* C27: no step of match_checks_with_invoices changes a check or a raw
\* invoice it was given.
C27_InputsNotMutated ==
    [][checks' = checks /\ invoices' = invoices]_vars

\* the function returned after converting invoices and listing candidates
\* that refer to the checks and, through original_data, to the raw invoices
C27_Witness ==
    /\ mpc = "done"
    /\ matches # <<>>
    /\ \A i \in DOMAIN matches : \A j \in DOMAIN matches[i] :
          /\ matches[i][j].check \in Range(checks)
          /\ matches[i][j].invoice.original_data \in Range(invoices)


(***************************************************************************)
(*                     Claims on process_input_folder                      *)
(***************************************************************************)

\* the files processed so far for which a check record came back
RECURSIVE C16_Succeeded(_)
C16_Succeeded(n) ==
    IF n = 0 THEN <<>>
    ELSE C16_Succeeded(n - 1) \o
         (IF \E i \in DOMAIN batch_check_data : batch_check_data[i].pdf_path = pdf_files[n]
          THEN <<pdf_files[n]>> ELSE <<>>)

\* C16 (as claimed): no extraction that fails for one file ends the batch;
\* the loop goes through every file and the list returned holds, in the
\* order of the files, one record for each file that yielded one.
C16_BatchSurvivesFailedExtraction ==
    /\ bpc # "raised"
    /\ bpc = "done" =>
          /\ bi = Len(pdf_files) + 1
          /\ [i \in DOMAIN batch_check_data |-> batch_check_data[i].pdf_path]
                = C16_Succeeded(Len(pdf_files))


(***************************************************************************)
(*              Claims on the Nova match_checks_with_invoices              *)
(***************************************************************************)

\* the check at position k was flagged LOW and the first answer lists, for
\* it, an invoice whose amount is within the re-analysis tolerance
LowNearMiss(k) ==
    /\ FlaggedLow(n_check_data[k])
    /\ k \in DOMAIN loop_matches
    /\ \E j \in DOMAIN loop_matches[k].matching_invoices :
          Abs(loop_matches[k].amount - loop_matches[k].matching_invoices[j].amount)
              <= reanalysis_tolerance

\* C13 (as claimed): once the function has returned, every check flagged
\* LOW with a matched invoice within $50 of its amount has been re-analysed.
C13_LowNearMissReanalysed ==
    npc = "returned" =>
        \A k \in DOMAIN n_check_data :
            LowNearMiss(k) =>
                \E r \in Range(reanalyses) : r.check_id = n_check_data[k].pdf_path

\* C14 (as claimed): a re-analysis that does not report HIGH, or that
\* fails, leaves the amounts as they were and does not abort the function.
C14_UncertainReanalysisKeepsReading ==
    (reanalyses # <<>> /\ reanalyses[Len(reanalyses)].kind \in {"same", "failed"}) =>
        /\ npc # "raised"
        /\ \A k \in DOMAIN filtered_checks :
              filtered_checks[k].amount = n_check_data[k].amount

C25_ReanalysedAtMostOnce ==
    \A i, j \in DOMAIN reanalyses :
        reanalyses[i].check_id = reanalyses[j].check_id => i = j


(***************************************************************************)
(*                      Claims on the field scorers                        *)
(***************************************************************************)

\* the amounts of FieldAmounts that are not negative
C21_NonNegative == {a \in FieldAmounts : a >= 0}

\* C21: for amounts a, b >= 0 the amount score is 1.0 when a = b, is the
\* same for (b, a), and for a # b is 1 - |a-b| / max(a, b), which lies in
\* [0, 1].
C21_AmountScoreLaw ==
    (fpc = "scored" /\ amount_a >= 0 /\ amount_b >= 0) =>
        /\ amount_a = amount_b => a_score = ScoreUnit
        /\ AmountDivides(amount_b, amount_a)
        /\ a_score = amount_score(amount_b, amount_a)
        /\ amount_a # amount_b =>
              a_score * Max(amount_a, amount_b)
                  = (Max(amount_a, amount_b) - Abs(amount_a - amount_b)) * ScoreUnit
        /\ a_score \in 0..ScoreUnit

\* two different positive amounts were scored, strictly between 0 and 1
C21_Witness ==
    /\ fpc = "scored"
    /\ amount_a > 0 /\ amount_b > 0 /\ amount_a # amount_b
    /\ a_score > 0 /\ a_score < ScoreUnit

\* C22 (as claimed): among all non-negative amounts, a pair that is no
\* further apart than another pair scores at least as high.
C22_MonotoneInDifference ==
    (fpc = "scored" /\ amount_a >= 0 /\ amount_b >= 0) =>
        \A c, d \in C21_NonNegative :
            Abs(amount_a - amount_b) <= Abs(c - d) =>
                a_score >= amount_score(c, d)

\* C22 (amended): among the pairs with the same larger amount, a pair that
\* is no further apart than another pair scores at least as high.
C22_MonotoneForSameLarger ==
    (fpc = "scored" /\ amount_a >= 0 /\ amount_b >= 0) =>
        \A c, d \in C21_NonNegative :
            (/\ Max(c, d) = Max(amount_a, amount_b)
             /\ Abs(amount_a - amount_b) <= Abs(c - d)) =>
                a_score >= amount_score(c, d)

\* a pair was scored that is closer than another pair with the same larger
\* amount, and scores strictly higher
C22_Witness ==
    /\ fpc = "scored"
    /\ amount_a > 0 /\ amount_b > 0
    /\ \E c, d \in C21_NonNegative :
          /\ Max(c, d) = Max(amount_a, amount_b)
          /\ 0 < Abs(amount_a - amount_b)
          /\ Abs(amount_a - amount_b) < Abs(c - d)
          /\ a_score > amount_score(c, d)

\* C23 (as claimed): normalizing a normalized name changes nothing.
C23_NormalizeIdempotent ==
    fpc = "renormalized" => twice = once

\* the word sets name_similarity compares
C24_Words(name) == {name[i].text : i \in {j \in DOMAIN name : name[j].text # ""}}

\* C24: name_similarity is the share of the union of the two normalized
\* word sets that is common to both (in score units, rounded down), lies in
\* [0, 1], is 1.0 for a name against itself when it normalizes to some word,
\* and is 0.0 when either name is empty or the two normalize to no word.
C24_JaccardOfNormalizedWords ==
    fpc = "compared" =>
        LET w1 == C24_Words(normalize_name(f_name1))
            w2 == C24_Words(normalize_name(f_name2))
            common == Cardinality(w1 \cap w2)
            total == Cardinality(w1 \cup w2)
        IN  /\ similarity \in 0..ScoreUnit
            /\ (f_name1 = <<>> \/ f_name2 = <<>> \/ total = 0) => similarity = 0
            /\ (f_name1 # <<>> /\ f_name2 # <<>> /\ total > 0) =>
                  /\ similarity * total <= common * ScoreUnit
                  /\ common * ScoreUnit < (similarity + 1) * total
            /\ (f_name1 = f_name2 /\ w1 # {}) => similarity = ScoreUnit

\* two different names that share a word, but not all their words, were compared
C24_Witness ==
    /\ fpc = "compared"
    /\ similarity > 0 /\ similarity < ScoreUnit
    /\ f_name1 # f_name2


(***************************************************************************)
(*                        Claims on BillingMatcher                         *)
(***************************************************************************)

RECURSIVE C30_Pages(_)
C30_Pages(n) == IF n = 0 THEN <<>> ELSE C30_Pages(n - 1) \o responses[n].records

\* C30 (as claimed): whatever the server answers, the call ends, by raising
\* or by returning; and what it returns is the records of the pages
\* requested, in page order, their number having reached total_records.
C30_TerminatesWithAllPages ==
    /\ <>(qpc \in {"returned", "raised"})
    /\ [](qpc = "returned" =>
            /\ Len(all_records) >= Response(page).total_records
            /\ page <= Len(responses) => all_records = C30_Pages(page))

=============================================================================
